---- MODULE Spec2Model ----
(***************************************************************************)
(* strict-yaml-rust: the pipeline scanner -> Parser (pushdown state        *)
(* machine, src/parser.rs) -> load driver (Parser::load ...) ->            *)
(* StrictYamlLoader (src/strict_yaml.rs).                                  *)
(*                                                                         *)
(* The scanner (src/scanner.rs) is not among the sources; its indentation  *)
(* engine is modelled from section 4.B of the specification.  A token's    *)
(* Marker is modelled by the ordinal of the token in the stream.  The      *)
(* anchor id of events and of doc_stack entries is always 0                *)
(* (parser.rs:395) and is left out.                                        *)
(***************************************************************************)
EXTENDS Integers, Sequences, FiniteSets, TLC

\* ---------------------------------------------------------------- bounds
\* number of lexical items (entries, keys, scalars, markers) of an input
MaxItems == 3
\* largest column at which an item may start
MaxCol == 1

\* tokens of a stream that need not come from well-formed text
MaxToks == 6
\* items of an input of few kinds of item
MaxDeepItems == 5
\* calls of next() after the one that returned StreamEnd
MaxAfterEnd == 2

\* ---------------------------------------------------------------- tokens
Tok(type) == [type |-> type, text |-> "", style |-> ""]

ScalarTok(text, style) == [type |-> "Scalar", text |-> text, style |-> style]

TScalarStyle == {"Plain", "SingleQuoted", "DoubleQuoted", "Literal", "Folded"}

\* the text of a flow collection, which the scanner reads as one plain scalar
FlowText == "[1, 2]"

\* the scalar lexemes an input may contain
Scalars ==
  {ScalarTok("a", s) : s \in TScalarStyle}
  \cup {ScalarTok("~", "Plain"), ScalarTok(FlowText, "Plain")}

\* scalars that fit on one line before a ':' (block scalars cannot)
KeyScalars ==
  {s \in Scalars : s.style \in {"Plain", "SingleQuoted"} /\ s.text # FlowText}

Directives == {"VersionDirective", "TagDirective"}

\* a %YAML directive of a version other than 1.x, which the commented-out
\* check of parser_process_directives would refuse; Tok("VersionDirective")
\* is the directive of a version that check accepts
IncompatibleVersion == [type |-> "VersionDirective", text |-> "3.0", style |-> ""]

\* ---------------------------------------------------------------- events
Ev(type) == [type |-> type, text |-> "", style |-> ""]

empty_scalar == [type |-> "Scalar", text |-> "", style |-> "Plain"]

\* ---------------------------------------------------------------- nodes
String(t) == [kind |-> "String", text |-> t, members |-> <<>>]

Array(v) == [kind |-> "Array", text |-> "", members |-> v]

\* a LinkedHashMap is the sequence of its [key, value] entries in iteration order
Hash(h) == [kind |-> "Hash", text |-> "", members |-> h]

BadValue == [kind |-> "BadValue", text |-> "", members |-> <<>>]

is_badvalue(n) == n.kind = "BadValue"

\* from_str that reads the plain scalar ~ as a null, as a YAML 1.2 core
\* schema loader would
from_str_coerce(v) == IF v = "~" THEN BadValue ELSE String(v)

\* from_str that reads bracket text as a collection
from_str_flow(v) == IF v = FlowText THEN Array(<<String("1"), String("2")>>) ELSE String(v)

from_str(v) == String(v)

Last(s) == s[Len(s)]

Front(s) == SubSeq(s, 1, Len(s) - 1)

VARIABLES
  \* scanner
  indents,               \* stack of indentation columns, top last
  queue,                 \* tokens scanned and not yet handed out
  nitems,                \* lexical items read so far
  stream_start_produced,
  stream_end_produced,
  \* parser
  toks,                  \* tokens returned by scanner.next(), in order; the
                         \* style of a token the parser has consumed is not
                         \* kept, but for a scalar in key position
  tpos,                  \* how many of them the parser has consumed
  state,
  states,
  current,               \* the pending-event slot of peek(), NoRet when None
  \* caller of the parser
  peeked,                \* value of the peek() calls since the last next()
  \* load driver
  pc,                    \* which next() call of the driver is pending
  cstack,                \* return points of the load_node recursion
  ret,                   \* value returned by the pending next() call
  events,                \* events returned by next() so far, without style
  \* loader
  docs,
  doc_stack,
  key_stack,
  recv_errs,             \* Err values returned by on_event
  depth,                 \* in the current document, the greatest height of
                         \* doc_stack and the greatest number of load_node
                         \* calls active at once
  result                 \* value returned by load_from_str

scannerVars == <<indents, queue, nitems, stream_start_produced, stream_end_produced>>

parserVars == <<toks, tpos, state, states, current>>

driverVars == <<pc, cstack, ret, events>>

loaderVars == <<docs, doc_stack, key_stack, recv_errs, depth>>

vars == <<scannerVars, parserVars, peeked, driverVars, loaderVars, result>>

NoRet == [tag |-> "none", ev |-> Ev("Nothing"), mark |-> 0, msg |-> ""]

NoErr == [mark |-> 0, msg |-> ""]

NoResult == [tag |-> "none", docs |-> <<>>, err |-> NoErr]

\* ---------------------------------------------------------------- scanner
\* unroll_indent that pops one level at most
unroll_indent_one(ind, col) ==
  IF Last(ind) > col
    THEN [ind |-> Front(ind), out |-> <<Tok("BlockEnd")>>]
    ELSE [ind |-> ind, out |-> <<>>]

RECURSIVE unroll_indent(_, _)
\* pops every column strictly greater than col, one BlockEnd per level
unroll_indent(ind, col) ==
  IF Last(ind) > col
    THEN LET r == unroll_indent(Front(ind), col)
         IN [ind |-> r.ind, out |-> <<Tok("BlockEnd")>> \o r.out]
    ELSE [ind |-> ind, out |-> <<>>]

\* pushes col and emits the block start token when col is deeper
roll_indent(ind, col, tok) ==
  IF Last(ind) < col
    THEN [ind |-> Append(ind, col), out |-> <<Tok(tok)>>]
    ELSE [ind |-> ind, out |-> <<>>]

\* the lexical items the scanner can find next in the input
Items ==
  [kind : {"entry", "key", "value"}, col : 0..MaxCol, tok : {Tok("")}]
  \cup [kind : {"simplekey"}, col : 0..MaxCol, tok : KeyScalars]
  \cup [kind : {"scalar"}, col : 0..MaxCol, tok : Scalars]
  \cup [kind : {"marker"}, col : {0},
        tok : {Tok("DocumentStart"), Tok("DocumentEnd"),
               Tok("VersionDirective"), IncompatibleVersion, Tok("TagDirective")}]
  \cup [kind : {"end", "error"}, col : {0}, tok : {Tok("")}]

\* tokens and indentation stack after scanning one item
fetch_next_token(ind, it) ==
  LET u == unroll_indent(ind, IF it.kind \in {"marker", "end"} THEN -1 ELSE it.col)
      start == CASE it.kind = "entry" -> "BlockSequenceStart"
                 [] it.kind \in {"key", "value", "simplekey"} -> "BlockMappingStart"
                 [] OTHER -> ""
      r == IF start = "" THEN [ind |-> u.ind, out |-> <<>>]
           ELSE roll_indent(u.ind, it.col, start)
      body == CASE it.kind = "entry" -> <<Tok("BlockEntry")>>
                [] it.kind = "key" -> <<Tok("Key")>>
                [] it.kind = "value" -> <<Tok("Value")>>
                [] it.kind = "simplekey" -> <<Tok("Key"), it.tok, Tok("Value")>>
                [] it.kind = "scalar" -> <<it.tok>>
                [] it.kind = "marker" -> <<it.tok>>
                [] it.kind = "end" -> <<Tok("StreamEnd")>>
                [] OTHER -> <<[type |-> "ScanError", text |-> "scan error", style |-> ""]>>
  IN [ind |-> r.ind, out |-> u.out \o r.out \o body]

\* ---------------------------------------------------------------- parser
\* Results of one call of a state handler: "need" when peek_token has to
\* call scan_next_token first, otherwise the ParseResult and the parser after it.
Need == [tag |-> "need"]

Ok(ev, mark, st, sts, pos) ==
  [tag |-> "ok", ev |-> ev, mark |-> mark, msg |-> "",
   state |-> st, states |-> sts, tpos |-> pos]

Err(mark, msg, st, sts, pos) ==
  [tag |-> "err", ev |-> Ev("Nothing"), mark |-> mark, msg |-> msg,
   state |-> st, states |-> sts, tpos |-> pos]

\* unwrap() of an empty states stack
Panic(msg, st, sts, pos) ==
  [tag |-> "panic", ev |-> Ev("Nothing"), mark |-> 0, msg |-> msg,
   state |-> st, states |-> sts, tpos |-> pos]

\* self.peek_token() with pos tokens consumed: the token and its mark, the
\* scanner's error, or "need" when scan_next_token has to be called first
peek_token(pos) ==
  IF pos >= Len(toks)
    THEN [tag |-> "need", tok |-> Tok(""), mark |-> 0]
  ELSE IF toks[pos + 1].type = "ScanError"
    THEN [tag |-> "err", tok |-> toks[pos + 1], mark |-> pos + 1]
  ELSE [tag |-> "ok", tok |-> toks[pos + 1], mark |-> pos + 1]

\* the `?` of self.peek_token()? when no token came back
NoToken(pk, st, sts, pos) ==
  IF pk.tag = "need" THEN Need ELSE Err(pk.mark, pk.tok.text, st, sts, pos)

\* an event returned after self.pop_state()
pop_state(ev, mark, st, sts, pos) ==
  IF sts = <<>> THEN Panic("pop_state", st, sts, pos)
  ELSE Ok(ev, mark, Last(sts), Front(sts), pos)

RECURSIVE SkipWhile(_, _)
\* position after skipping every leading token whose type is in types
SkipWhile(pos, types) ==
  IF pos < Len(toks) /\ toks[pos + 1].type \in types
    THEN SkipWhile(pos + 1, types)
    ELSE pos

RECURSIVE parser_process_directives_strict(_)
\* parser_process_directives with the version check that is commented out
\* in the source: it does not go past a %YAML directive of another version
parser_process_directives_strict(pos) ==
  IF pos < Len(toks) /\ toks[pos + 1].type \in Directives
     /\ toks[pos + 1] # IncompatibleVersion
    THEN parser_process_directives_strict(pos + 1)
    ELSE pos

parser_process_directives(pos) == SkipWhile(pos, Directives)

stream_start(st, sts, pos) ==
  LET pk == peek_token(pos) IN
  IF pk.tag # "ok" THEN NoToken(pk, st, sts, pos)
  ELSE IF pk.tok.type = "StreamStart"
    THEN Ok(Ev("StreamStart"), pk.mark, "ImplicitDocumentStart", sts, pos + 1)
  ELSE Err(pk.mark, "did not find expected <stream-start>", st, sts, pos)

_explict_document_start(st, sts, pos0) ==
  LET pos == parser_process_directives(pos0)
      pk == peek_token(pos)
  IN IF pk.tag # "ok" THEN NoToken(pk, st, sts, pos)
     ELSE IF pk.tok.type = "DocumentStart"
       THEN Ok(Ev("DocumentStart"), pk.mark, "DocumentContent",
               Append(sts, "DocumentEnd"), pos + 1)
     ELSE Err(pk.mark, "did not find expected <document start>", st, sts, pos)

\* document_start without the arm for StreamEnd
document_start_noend(st, sts, pos0, implicit) ==
  LET pos == IF implicit THEN pos0 ELSE SkipWhile(pos0, {"DocumentEnd"})
      pk == peek_token(pos)
  IN IF pk.tag # "ok" THEN NoToken(pk, st, sts, pos)
     ELSE IF pk.tok.type \in Directives \cup {"DocumentStart"}
       THEN _explict_document_start(st, sts, pos)
     ELSE IF implicit
       THEN Ok(Ev("DocumentStart"), pk.mark, "BlockNode",
               Append(sts, "DocumentEnd"), parser_process_directives(pos))
     ELSE _explict_document_start(st, sts, pos)

\* document_start without the push_state(DocumentEnd) of an implicit start
document_start_nopush(st, sts, pos0, implicit) ==
  LET pos == IF implicit THEN pos0 ELSE SkipWhile(pos0, {"DocumentEnd"})
      pk == peek_token(pos)
  IN IF pk.tag # "ok" THEN NoToken(pk, st, sts, pos)
     ELSE CASE pk.tok.type = "StreamEnd" ->
                 Ok(Ev("StreamEnd"), pk.mark, "End", sts, pos + 1)
            [] pk.tok.type \in Directives \cup {"DocumentStart"} ->
                 _explict_document_start(st, sts, pos)
            [] OTHER ->
                 IF implicit
                   THEN Ok(Ev("DocumentStart"), pk.mark, "BlockNode",
                           sts, parser_process_directives(pos))
                   ELSE _explict_document_start(st, sts, pos)

\* document_start that lets every document start implicitly
document_start_implicit(st, sts, pos0, implicit) ==
  LET pos == IF implicit THEN pos0 ELSE SkipWhile(pos0, {"DocumentEnd"})
      pk == peek_token(pos)
  IN IF pk.tag # "ok" THEN NoToken(pk, st, sts, pos)
     ELSE CASE pk.tok.type = "StreamEnd" ->
                 Ok(Ev("StreamEnd"), pk.mark, "End", sts, pos + 1)
            [] pk.tok.type \in Directives \cup {"DocumentStart"} ->
                 _explict_document_start(st, sts, pos)
            [] OTHER ->
                 Ok(Ev("DocumentStart"), pk.mark, "BlockNode",
                    Append(sts, "DocumentEnd"), parser_process_directives(pos))

document_start(st, sts, pos0, implicit) ==
  LET pos == IF implicit THEN pos0 ELSE SkipWhile(pos0, {"DocumentEnd"})
      pk == peek_token(pos)
  IN IF pk.tag # "ok" THEN NoToken(pk, st, sts, pos)
     ELSE CASE pk.tok.type = "StreamEnd" ->
                 Ok(Ev("StreamEnd"), pk.mark, "End", sts, pos + 1)
            [] pk.tok.type \in Directives \cup {"DocumentStart"} ->
                 _explict_document_start(st, sts, pos)
            [] OTHER ->
                 IF implicit
                   THEN Ok(Ev("DocumentStart"), pk.mark, "BlockNode",
                           Append(sts, "DocumentEnd"), parser_process_directives(pos))
                   ELSE _explict_document_start(st, sts, pos)

\* parse_node without the self.pop_state() of its Scalar arm
parse_node_nopop(st, sts, pos, block, indentless_sequence) ==
  LET pk == peek_token(pos)
      t == pk.tok
  IN IF pk.tag # "ok" THEN NoToken(pk, st, sts, pos)
     ELSE CASE t.type = "BlockEntry" /\ indentless_sequence ->
                 Ok(Ev("SequenceStart"), pk.mark, "IndentlessSequenceEntry", sts, pos)
            [] t.type = "Scalar" ->
                 Ok([type |-> "Scalar", text |-> t.text, style |-> t.style],
                    pk.mark, st, sts, pos + 1)
            [] t.type = "BlockSequenceStart" /\ block ->
                 Ok(Ev("SequenceStart"), pk.mark, "BlockSequenceFirstEntry", sts, pos)
            [] t.type = "BlockMappingStart" /\ block ->
                 Ok(Ev("MappingStart"), pk.mark, "BlockMappingFirstKey", sts, pos)
            [] OTHER ->
                 Err(pk.mark, "while parsing a node, did not find expected node content",
                     st, sts, pos)

parse_node(st, sts, pos, block, indentless_sequence) ==
  LET pk == peek_token(pos)
      t == pk.tok
  IN IF pk.tag # "ok" THEN NoToken(pk, st, sts, pos)
     ELSE CASE t.type = "BlockEntry" /\ indentless_sequence ->
                 Ok(Ev("SequenceStart"), pk.mark, "IndentlessSequenceEntry", sts, pos)
            [] t.type = "Scalar" ->
                 pop_state([type |-> "Scalar", text |-> t.text, style |-> t.style],
                           pk.mark, st, sts, pos + 1)
            [] t.type = "BlockSequenceStart" /\ block ->
                 Ok(Ev("SequenceStart"), pk.mark, "BlockSequenceFirstEntry", sts, pos)
            [] t.type = "BlockMappingStart" /\ block ->
                 Ok(Ev("MappingStart"), pk.mark, "BlockMappingFirstKey", sts, pos)
            [] OTHER ->
                 Err(pk.mark, "while parsing a node, did not find expected node content",
                     st, sts, pos)

\* document_content without the empty-scalar arm
document_content_noempty(st, sts, pos) == parse_node(st, sts, pos, TRUE, FALSE)

document_content(st, sts, pos) ==
  LET pk == peek_token(pos) IN
  IF pk.tag # "ok" THEN NoToken(pk, st, sts, pos)
  ELSE IF pk.tok.type \in Directives \cup {"DocumentStart", "DocumentEnd", "StreamEnd"}
    THEN pop_state(empty_scalar, pk.mark, st, sts, pos)
  ELSE parse_node(st, sts, pos, TRUE, FALSE)

document_end(st, sts, pos) ==
  LET pk == peek_token(pos) IN
  IF pk.tag # "ok" THEN NoToken(pk, st, sts, pos)
  ELSE Ok(Ev("DocumentEnd"), pk.mark, "DocumentStart", sts,
          IF pk.tok.type = "DocumentEnd" THEN pos + 1 ELSE pos)

\* block_mapping_key that ends the mapping at any token that is no key
block_mapping_key_lenient(st, sts, pos0, first) ==
  LET pk0 == peek_token(pos0)
      pos == IF first THEN pos0 + 1 ELSE pos0
      pk == peek_token(pos)
      pk2 == peek_token(pos + 1)
  IN IF first /\ pk0.tag # "ok" THEN NoToken(pk0, st, sts, pos0)
     ELSE IF pk.tag # "ok" THEN NoToken(pk, st, sts, pos)
     ELSE CASE pk.tok.type = "Key" ->
                 IF pk2.tag # "ok" THEN NoToken(pk2, st, sts, pos + 1)
                 ELSE IF pk2.tok.type \in {"Key", "Value", "BlockEnd"}
                   THEN Ok(empty_scalar, pk2.mark, "BlockMappingValue", sts, pos + 1)
                 ELSE parse_node(st, Append(sts, "BlockMappingValue"), pos + 1, TRUE, TRUE)
            [] pk.tok.type = "Value" ->
                 Ok(empty_scalar, pk.mark, "BlockMappingValue", sts, pos)
            [] pk.tok.type = "BlockEnd" ->
                 pop_state(Ev("MappingEnd"), pk.mark, st, sts, pos + 1)
            [] OTHER ->
                 pop_state(Ev("MappingEnd"), pk.mark, st, sts, pos)

\* block_mapping_key that skips the Value token it finds in key position
block_mapping_key_skip(st, sts, pos0, first) ==
  LET pk0 == peek_token(pos0)
      pos == IF first THEN pos0 + 1 ELSE pos0
      pk == peek_token(pos)
      pk2 == peek_token(pos + 1)
  IN IF first /\ pk0.tag # "ok" THEN NoToken(pk0, st, sts, pos0)
     ELSE IF pk.tag # "ok" THEN NoToken(pk, st, sts, pos)
     ELSE CASE pk.tok.type = "Key" ->
                 IF pk2.tag # "ok" THEN NoToken(pk2, st, sts, pos + 1)
                 ELSE IF pk2.tok.type \in {"Key", "Value", "BlockEnd"}
                   THEN Ok(empty_scalar, pk2.mark, "BlockMappingValue", sts, pos + 1)
                 ELSE parse_node(st, Append(sts, "BlockMappingValue"), pos + 1, TRUE, TRUE)
            [] pk.tok.type = "Value" ->
                 Ok(empty_scalar, pk.mark, "BlockMappingValue", sts, pos + 1)
            [] pk.tok.type = "BlockEnd" ->
                 pop_state(Ev("MappingEnd"), pk.mark, st, sts, pos + 1)
            [] OTHER ->
                 Err(pk.mark, "while parsing a block mapping, did not find expected key",
                     st, sts, pos)

block_mapping_key(st, sts, pos0, first) ==
  LET pk0 == peek_token(pos0)
      pos == IF first THEN pos0 + 1 ELSE pos0
      pk == peek_token(pos)
      pk2 == peek_token(pos + 1)
  IN IF first /\ pk0.tag # "ok" THEN NoToken(pk0, st, sts, pos0)
     ELSE IF pk.tag # "ok" THEN NoToken(pk, st, sts, pos)
     ELSE CASE pk.tok.type = "Key" ->
                 IF pk2.tag # "ok" THEN NoToken(pk2, st, sts, pos + 1)
                 ELSE IF pk2.tok.type \in {"Key", "Value", "BlockEnd"}
                   THEN Ok(empty_scalar, pk2.mark, "BlockMappingValue", sts, pos + 1)
                 ELSE parse_node(st, Append(sts, "BlockMappingValue"), pos + 1, TRUE, TRUE)
            [] pk.tok.type = "Value" ->
                 Ok(empty_scalar, pk.mark, "BlockMappingValue", sts, pos)
            [] pk.tok.type = "BlockEnd" ->
                 pop_state(Ev("MappingEnd"), pk.mark, st, sts, pos + 1)
            [] OTHER ->
                 Err(pk.mark, "while parsing a block mapping, did not find expected key",
                     st, sts, pos)

\* block_mapping_value that closes the mapping at a BlockEnd in value position
block_mapping_value_end(st, sts, pos) ==
  LET pk == peek_token(pos)
      pk2 == peek_token(pos + 1)
  IN IF pk.tag # "ok" THEN NoToken(pk, st, sts, pos)
     ELSE IF pk.tok.type = "Value"
       THEN IF pk2.tag # "ok" THEN NoToken(pk2, st, sts, pos + 1)
            ELSE IF pk2.tok.type \in {"Key", "Value", "BlockEnd"}
              THEN Ok(empty_scalar, pk2.mark, "BlockMappingKey", sts, pos + 1)
            ELSE parse_node(st, Append(sts, "BlockMappingKey"), pos + 1, TRUE, TRUE)
     ELSE IF pk.tok.type = "BlockEnd"
       THEN pop_state(Ev("MappingEnd"), pk.mark, st, sts, pos + 1)
     ELSE Ok(empty_scalar, pk.mark, "BlockMappingKey", sts, pos)

block_mapping_value(st, sts, pos) ==
  LET pk == peek_token(pos)
      pk2 == peek_token(pos + 1)
  IN IF pk.tag # "ok" THEN NoToken(pk, st, sts, pos)
     ELSE IF pk.tok.type = "Value"
       THEN IF pk2.tag # "ok" THEN NoToken(pk2, st, sts, pos + 1)
            ELSE IF pk2.tok.type \in {"Key", "Value", "BlockEnd"}
              THEN Ok(empty_scalar, pk2.mark, "BlockMappingKey", sts, pos + 1)
            ELSE parse_node(st, Append(sts, "BlockMappingKey"), pos + 1, TRUE, TRUE)
     ELSE Ok(empty_scalar, pk.mark, "BlockMappingKey", sts, pos)

\* indentless_sequence_entry without the self.skip() of the '-' it found
indentless_sequence_entry_noskip(st, sts, pos) ==
  LET pk == peek_token(pos)
      pk2 == peek_token(pos + 1)
  IN IF pk.tag # "ok" THEN NoToken(pk, st, sts, pos)
     ELSE IF pk.tok.type # "BlockEntry"
       THEN pop_state(Ev("SequenceEnd"), pk.mark, st, sts, pos)
     ELSE IF pk2.tag # "ok" THEN NoToken(pk2, st, sts, pos + 1)
     ELSE IF pk2.tok.type \in {"BlockEntry", "Key", "Value", "BlockEnd"}
       THEN Ok(empty_scalar, pk2.mark, "IndentlessSequenceEntry", sts, pos)
     ELSE parse_node(st, Append(sts, "IndentlessSequenceEntry"), pos + 1, TRUE, FALSE)

\* indentless_sequence_entry that consumes the token that ends the sequence
indentless_sequence_entry_eat(st, sts, pos) ==
  LET pk == peek_token(pos)
      pk2 == peek_token(pos + 1)
  IN IF pk.tag # "ok" THEN NoToken(pk, st, sts, pos)
     ELSE IF pk.tok.type # "BlockEntry"
       THEN pop_state(Ev("SequenceEnd"), pk.mark, st, sts, pos + 1)
     ELSE IF pk2.tag # "ok" THEN NoToken(pk2, st, sts, pos + 1)
     ELSE IF pk2.tok.type \in {"BlockEntry", "Key", "Value", "BlockEnd"}
       THEN Ok(empty_scalar, pk2.mark, "IndentlessSequenceEntry", sts, pos + 1)
     ELSE parse_node(st, Append(sts, "IndentlessSequenceEntry"), pos + 1, TRUE, FALSE)

indentless_sequence_entry(st, sts, pos) ==
  LET pk == peek_token(pos)
      pk2 == peek_token(pos + 1)
  IN IF pk.tag # "ok" THEN NoToken(pk, st, sts, pos)
     ELSE IF pk.tok.type # "BlockEntry"
       THEN pop_state(Ev("SequenceEnd"), pk.mark, st, sts, pos)
     ELSE IF pk2.tag # "ok" THEN NoToken(pk2, st, sts, pos + 1)
     ELSE IF pk2.tok.type \in {"BlockEntry", "Key", "Value", "BlockEnd"}
       THEN Ok(empty_scalar, pk2.mark, "IndentlessSequenceEntry", sts, pos + 1)
     ELSE parse_node(st, Append(sts, "IndentlessSequenceEntry"), pos + 1, TRUE, FALSE)

\* block_sequence_entry that closes the sequence with the event of a mapping
block_sequence_entry_wrongend(st, sts, pos0, first) ==
  LET pk0 == peek_token(pos0)
      pos == IF first THEN pos0 + 1 ELSE pos0
      pk == peek_token(pos)
      pk2 == peek_token(pos + 1)
  IN IF first /\ pk0.tag # "ok" THEN NoToken(pk0, st, sts, pos0)
     ELSE IF pk.tag # "ok" THEN NoToken(pk, st, sts, pos)
     ELSE CASE pk.tok.type = "BlockEnd" ->
                 pop_state(Ev("MappingEnd"), pk.mark, st, sts, pos + 1)
            [] pk.tok.type = "BlockEntry" ->
                 IF pk2.tag # "ok" THEN NoToken(pk2, st, sts, pos + 1)
                 ELSE IF pk2.tok.type \in {"BlockEntry", "BlockEnd"}
                   THEN Ok(empty_scalar, pk2.mark, "BlockSequenceEntry", sts, pos + 1)
                 ELSE parse_node(st, Append(sts, "BlockSequenceEntry"), pos + 1, TRUE, FALSE)
            [] OTHER ->
                 Err(pk.mark, "while parsing a block collection, did not find expected '-' indicator",
                     st, sts, pos)

\* block_sequence_entry that ends the sequence at a '-' with nothing after it
\* instead of giving the entry an empty scalar
block_sequence_entry_noempty(st, sts, pos0, first) ==
  LET pk0 == peek_token(pos0)
      pos == IF first THEN pos0 + 1 ELSE pos0
      pk == peek_token(pos)
      pk2 == peek_token(pos + 1)
  IN IF first /\ pk0.tag # "ok" THEN NoToken(pk0, st, sts, pos0)
     ELSE IF pk.tag # "ok" THEN NoToken(pk, st, sts, pos)
     ELSE CASE pk.tok.type = "BlockEnd" ->
                 pop_state(Ev("SequenceEnd"), pk.mark, st, sts, pos + 1)
            [] pk.tok.type = "BlockEntry" ->
                 IF pk2.tag # "ok" THEN NoToken(pk2, st, sts, pos + 1)
                 ELSE IF pk2.tok.type = "BlockEnd"
                   THEN pop_state(Ev("SequenceEnd"), pk2.mark, st, sts, pos + 2)
                 ELSE IF pk2.tok.type = "BlockEntry"
                   THEN Ok(empty_scalar, pk2.mark, "BlockSequenceEntry", sts, pos + 1)
                 ELSE parse_node(st, Append(sts, "BlockSequenceEntry"), pos + 1, TRUE, FALSE)
            [] OTHER ->
                 Err(pk.mark, "while parsing a block collection, did not find expected '-' indicator",
                     st, sts, pos)

block_sequence_entry(st, sts, pos0, first) ==
  LET pk0 == peek_token(pos0)
      pos == IF first THEN pos0 + 1 ELSE pos0
      pk == peek_token(pos)
      pk2 == peek_token(pos + 1)
  IN IF first /\ pk0.tag # "ok" THEN NoToken(pk0, st, sts, pos0)
     ELSE IF pk.tag # "ok" THEN NoToken(pk, st, sts, pos)
     ELSE CASE pk.tok.type = "BlockEnd" ->
                 pop_state(Ev("SequenceEnd"), pk.mark, st, sts, pos + 1)
            [] pk.tok.type = "BlockEntry" ->
                 IF pk2.tag # "ok" THEN NoToken(pk2, st, sts, pos + 1)
                 ELSE IF pk2.tok.type \in {"BlockEntry", "BlockEnd"}
                   THEN Ok(empty_scalar, pk2.mark, "BlockSequenceEntry", sts, pos + 1)
                 ELSE parse_node(st, Append(sts, "BlockSequenceEntry"), pos + 1, TRUE, FALSE)
            [] OTHER ->
                 Err(pk.mark, "while parsing a block collection, did not find expected '-' indicator",
                     st, sts, pos)

\* dispatch of Parser::state_machine on the current state
state_machine(st, sts, pos) ==
  CASE st = "StreamStart" -> stream_start(st, sts, pos)
    [] st = "ImplicitDocumentStart" -> document_start(st, sts, pos, TRUE)
    [] st = "DocumentStart" -> document_start(st, sts, pos, FALSE)
    [] st = "DocumentContent" -> document_content(st, sts, pos)
    [] st = "DocumentEnd" -> document_end(st, sts, pos)
    [] st = "BlockNode" -> parse_node(st, sts, pos, TRUE, FALSE)
    [] st = "BlockMappingFirstKey" -> block_mapping_key(st, sts, pos, TRUE)
    [] st = "BlockMappingKey" -> block_mapping_key(st, sts, pos, FALSE)
    [] st = "BlockMappingValue" -> block_mapping_value(st, sts, pos)
    [] st = "BlockSequenceFirstEntry" -> block_sequence_entry(st, sts, pos, TRUE)
    [] st = "BlockSequenceEntry" -> block_sequence_entry(st, sts, pos, FALSE)
    [] st = "IndentlessSequenceEntry" -> indentless_sequence_entry(st, sts, pos)

\* parse that looks for one more document when the state is End
parse_again(st, sts, pos) ==
  IF st = "End" THEN document_start(st, sts, pos, FALSE)
  ELSE state_machine(st, sts, pos)

\* Parser::parse
parse(st, sts, pos) ==
  IF st = "End" THEN Ok(Ev("StreamEnd"), Len(toks), st, sts, pos)
  ELSE state_machine(st, sts, pos)

\* ---------------------------------------------------------------- loader
\* LinkedHashMap::contains_key
contains_key(h, k) == \E i \in 1..Len(h) : h[i].key = k

\* an insert that puts the new entry first in iteration order
insert_front(h, k, v) ==
  <<[key |-> k, value |-> v]>> \o SelectSeq(h, LAMBDA e : e.key # k)

\* LinkedHashMap::insert: a new key goes to the back; an existing key gets
\* the new value and moves to the back
insert(h, k, v) ==
  Append(SelectSeq(h, LAMBDA e : e.key # k), [key |-> k, value |-> v])

ReplaceLast(s, x) == [s EXCEPT ![Len(s)] = x]

\* Result of a loader operation: the stacks after it and Ok, the StoreError,
\* or a panic (unwrap of nothing, unreachable!())
LRes(tag, dcs, ds, ks) ==
  [tag |-> tag, docs |-> dcs, doc_stack |-> ds, key_stack |-> ks]

\* insert_new_node that commits every pair without the contains_key test,
\* as onto a list of pairs
insert_new_node_unchecked(dcs, ds, ks, node) ==
  IF ds = <<>> THEN LRes("ok", dcs, <<node>>, ks)
  ELSE LET parent == Last(ds) IN
    CASE parent.kind = "Array" ->
           LRes("ok", dcs, ReplaceLast(ds, Array(Append(parent.members, node))), ks)
      [] parent.kind = "Hash" ->
           IF ks = <<>> THEN LRes("panic", dcs, ds, ks)
           ELSE IF is_badvalue(Last(ks))
             THEN LRes("ok", dcs, ds, ReplaceLast(ks, node))
             ELSE LRes("ok", dcs,
                       ReplaceLast(ds, Hash(Append(parent.members,
                                                   [key |-> Last(ks), value |-> node]))),
                       ReplaceLast(ks, BadValue))
      [] OTHER -> LRes("panic", dcs, ds, ks)

\* insert_new_node that does not keep a node arriving on an empty doc_stack
insert_new_node_noroot(dcs, ds, ks, node) ==
  IF ds = <<>> THEN LRes("ok", dcs, ds, ks)
  ELSE LET parent == Last(ds) IN
    CASE parent.kind = "Array" ->
           LRes("ok", dcs, ReplaceLast(ds, Array(Append(parent.members, node))), ks)
      [] parent.kind = "Hash" ->
           IF ks = <<>> THEN LRes("panic", dcs, ds, ks)
           ELSE IF is_badvalue(Last(ks))
             THEN LRes("ok", dcs, ds, ReplaceLast(ks, node))
           ELSE IF contains_key(parent.members, Last(ks))
             THEN LRes("RepeatedHashKey", dcs, ds, ReplaceLast(ks, BadValue))
           ELSE LRes("ok", dcs,
                     ReplaceLast(ds, Hash(insert(parent.members, Last(ks), node))),
                     ReplaceLast(ks, BadValue))
      [] OTHER -> LRes("panic", dcs, ds, ks)

\* insert_new_node that appends to the Array at the bottom of doc_stack
\* instead of the one on top
insert_new_node_bottom(dcs, ds, ks, node) ==
  IF ds = <<>> THEN LRes("ok", dcs, <<node>>, ks)
  ELSE LET parent == Last(ds) IN
    CASE parent.kind = "Array" ->
           LRes("ok", dcs, [ds EXCEPT ![1] =
                  IF ds[1].kind = "Array" THEN Array(Append(ds[1].members, node))
                  ELSE ds[1]], ks)
      [] parent.kind = "Hash" ->
           IF ks = <<>> THEN LRes("panic", dcs, ds, ks)
           ELSE LET cur_key == Last(ks) IN
             IF is_badvalue(cur_key)
               THEN LRes("ok", dcs, ds, ReplaceLast(ks, node))
               ELSE LET newkey == cur_key
                        ks2 == ReplaceLast(ks, BadValue)
                    IN IF contains_key(parent.members, newkey)
                         THEN LRes("RepeatedHashKey", dcs, ds, ks2)
                         ELSE LRes("ok", dcs,
                                   ReplaceLast(ds, Hash(insert(parent.members, newkey, node))),
                                   ks2)
      [] OTHER -> LRes("panic", dcs, ds, ks)

\* insert_new_node without the mem::swap: the pending key stays in key_stack
\* after its pair is handled
insert_new_node_noswap(dcs, ds, ks, node) ==
  IF ds = <<>> THEN LRes("ok", dcs, <<node>>, ks)
  ELSE LET parent == Last(ds) IN
    CASE parent.kind = "Array" ->
           LRes("ok", dcs, ReplaceLast(ds, Array(Append(parent.members, node))), ks)
      [] parent.kind = "Hash" ->
           IF ks = <<>> THEN LRes("panic", dcs, ds, ks)
           ELSE LET cur_key == Last(ks) IN
             IF is_badvalue(cur_key)
               THEN LRes("ok", dcs, ds, ReplaceLast(ks, node))
               ELSE LET newkey == cur_key
                    IN IF contains_key(parent.members, newkey)
                         THEN LRes("RepeatedHashKey", dcs, ds, ks)
                         ELSE LRes("ok", dcs,
                                   ReplaceLast(ds, Hash(insert(parent.members, newkey, node))),
                                   ks)
      [] OTHER -> LRes("panic", dcs, ds, ks)

\* insert_new_node that reports a repeated key and stores its value all the
\* same, over the first one
insert_new_node_overwrite(dcs, ds, ks, node) ==
  IF ds = <<>> THEN LRes("ok", dcs, <<node>>, ks)
  ELSE LET parent == Last(ds) IN
    CASE parent.kind = "Array" ->
           LRes("ok", dcs, ReplaceLast(ds, Array(Append(parent.members, node))), ks)
      [] parent.kind = "Hash" ->
           IF ks = <<>> THEN LRes("panic", dcs, ds, ks)
           ELSE LET cur_key == Last(ks) IN
             IF is_badvalue(cur_key)
               THEN LRes("ok", dcs, ds, ReplaceLast(ks, node))
               ELSE LET newkey == cur_key
                        ks2 == ReplaceLast(ks, BadValue)
                    IN IF contains_key(parent.members, newkey)
                         THEN LRes("RepeatedHashKey", dcs,
                                   ReplaceLast(ds, Hash(insert(parent.members, newkey, node))),
                                   ks2)
                         ELSE LRes("ok", dcs,
                                   ReplaceLast(ds, Hash(insert(parent.members, newkey, node))),
                                   ks2)
      [] OTHER -> LRes("panic", dcs, ds, ks)

\* insert_new_node that looks for the key in every Hash on doc_stack
insert_new_node_global(dcs, ds, ks, node) ==
  IF ds = <<>> THEN LRes("ok", dcs, <<node>>, ks)
  ELSE LET parent == Last(ds) IN
    CASE parent.kind = "Array" ->
           LRes("ok", dcs, ReplaceLast(ds, Array(Append(parent.members, node))), ks)
      [] parent.kind = "Hash" ->
           IF ks = <<>> THEN LRes("panic", dcs, ds, ks)
           ELSE LET cur_key == Last(ks) IN
             IF is_badvalue(cur_key)
               THEN LRes("ok", dcs, ds, ReplaceLast(ks, node))
               ELSE LET newkey == cur_key
                        ks2 == ReplaceLast(ks, BadValue)
                    IN IF \E i \in 1..Len(ds) :
                            ds[i].kind = "Hash" /\ contains_key(ds[i].members, newkey)
                         THEN LRes("RepeatedHashKey", dcs, ds, ks2)
                         ELSE LRes("ok", dcs,
                                   ReplaceLast(ds, Hash(insert(parent.members, newkey, node))),
                                   ks2)
      [] OTHER -> LRes("panic", dcs, ds, ks)

\* insert_new_node that pushes the element of an Array on doc_stack
insert_new_node_push(dcs, ds, ks, node) ==
  IF ds = <<>> THEN LRes("ok", dcs, <<node>>, ks)
  ELSE LET parent == Last(ds) IN
    CASE parent.kind = "Array" -> LRes("ok", dcs, Append(ds, node), ks)
      [] parent.kind = "Hash" ->
           IF ks = <<>> THEN LRes("panic", dcs, ds, ks)
           ELSE LET cur_key == Last(ks) IN
             IF is_badvalue(cur_key)
               THEN LRes("ok", dcs, ds, ReplaceLast(ks, node))
               ELSE LET newkey == cur_key
                        ks2 == ReplaceLast(ks, BadValue)
                    IN IF contains_key(parent.members, newkey)
                         THEN LRes("RepeatedHashKey", dcs, ds, ks2)
                         ELSE LRes("ok", dcs,
                                   ReplaceLast(ds, Hash(insert(parent.members, newkey, node))),
                                   ks2)
      [] OTHER -> LRes("panic", dcs, ds, ks)

insert_new_node(dcs, ds, ks, node) ==
  IF ds = <<>> THEN LRes("ok", dcs, <<node>>, ks)
  ELSE LET parent == Last(ds) IN
    CASE parent.kind = "Array" ->
           LRes("ok", dcs, ReplaceLast(ds, Array(Append(parent.members, node))), ks)
      [] parent.kind = "Hash" ->
           IF ks = <<>> THEN LRes("panic", dcs, ds, ks)
           ELSE LET cur_key == Last(ks) IN
             IF is_badvalue(cur_key)
               THEN LRes("ok", dcs, ds, ReplaceLast(ks, node))
               ELSE LET newkey == cur_key
                        ks2 == ReplaceLast(ks, BadValue)
                    IN IF contains_key(parent.members, newkey)
                         THEN LRes("RepeatedHashKey", dcs, ds, ks2)
                         ELSE LRes("ok", dcs,
                                   ReplaceLast(ds, Hash(insert(parent.members, newkey, node))),
                                   ks2)
      [] OTHER -> LRes("panic", dcs, ds, ks)

\* on_event whose DocumentEnd pushes the root to docs and leaves it on
\* doc_stack
on_event_docend_keep(dcs, ds, ks, ev) ==
  CASE ev.type = "DocumentStart" -> LRes("ok", dcs, ds, ks)
    [] ev.type = "DocumentEnd" ->
         CASE Len(ds) = 0 -> LRes("ok", Append(dcs, BadValue), ds, ks)
           [] Len(ds) = 1 -> LRes("ok", Append(dcs, ds[1]), ds, ks)
           [] OTHER -> LRes("panic", dcs, ds, ks)
    [] ev.type = "SequenceStart" -> LRes("ok", dcs, Append(ds, Array(<<>>)), ks)
    [] ev.type = "SequenceEnd" ->
         IF ds = <<>> THEN LRes("panic", dcs, ds, ks)
         ELSE insert_new_node(dcs, Front(ds), ks, Last(ds))
    [] ev.type = "MappingStart" ->
         LRes("ok", dcs, Append(ds, Hash(<<>>)), Append(ks, BadValue))
    [] ev.type = "MappingEnd" ->
         IF ks = <<>> \/ ds = <<>> THEN LRes("panic", dcs, ds, ks)
         ELSE insert_new_node(dcs, Front(ds), Front(ks), Last(ds))
    [] ev.type = "Scalar" ->
         LET node == IF ev.style # "Plain" THEN String(ev.text) ELSE from_str(ev.text)
         IN insert_new_node(dcs, ds, ks, node)
    [] OTHER -> LRes("ok", dcs, ds, ks)

\* on_event whose MappingEnd leaves the key sentinel on key_stack
on_event_nopop(dcs, ds, ks, ev) ==
  CASE ev.type = "DocumentStart" -> LRes("ok", dcs, ds, ks)
    [] ev.type = "DocumentEnd" ->
         CASE Len(ds) = 0 -> LRes("ok", Append(dcs, BadValue), ds, ks)
           [] Len(ds) = 1 -> LRes("ok", Append(dcs, ds[1]), <<>>, ks)
           [] OTHER -> LRes("panic", dcs, ds, ks)
    [] ev.type = "SequenceStart" -> LRes("ok", dcs, Append(ds, Array(<<>>)), ks)
    [] ev.type = "SequenceEnd" ->
         IF ds = <<>> THEN LRes("panic", dcs, ds, ks)
         ELSE insert_new_node(dcs, Front(ds), ks, Last(ds))
    [] ev.type = "MappingStart" ->
         LRes("ok", dcs, Append(ds, Hash(<<>>)), Append(ks, BadValue))
    [] ev.type = "MappingEnd" ->
         IF ks = <<>> \/ ds = <<>> THEN LRes("panic", dcs, ds, ks)
         ELSE insert_new_node(dcs, Front(ds), ks, Last(ds))
    [] ev.type = "Scalar" ->
         LET node == IF ev.style # "Plain" THEN String(ev.text) ELSE from_str(ev.text)
         IN insert_new_node(dcs, ds, ks, node)
    [] OTHER -> LRes("ok", dcs, ds, ks)

\* on_event that keeps the quotes of a quoted scalar in the text of its
\* String
on_event_styled(dcs, ds, ks, ev) ==
  CASE ev.type = "DocumentStart" -> LRes("ok", dcs, ds, ks)
    [] ev.type = "DocumentEnd" ->
         CASE Len(ds) = 0 -> LRes("ok", Append(dcs, BadValue), ds, ks)
           [] Len(ds) = 1 -> LRes("ok", Append(dcs, ds[1]), <<>>, ks)
           [] OTHER -> LRes("panic", dcs, ds, ks)
    [] ev.type = "SequenceStart" -> LRes("ok", dcs, Append(ds, Array(<<>>)), ks)
    [] ev.type = "SequenceEnd" ->
         IF ds = <<>> THEN LRes("panic", dcs, ds, ks)
         ELSE insert_new_node(dcs, Front(ds), ks, Last(ds))
    [] ev.type = "MappingStart" ->
         LRes("ok", dcs, Append(ds, Hash(<<>>)), Append(ks, BadValue))
    [] ev.type = "MappingEnd" ->
         IF ks = <<>> \/ ds = <<>> THEN LRes("panic", dcs, ds, ks)
         ELSE insert_new_node(dcs, Front(ds), Front(ks), Last(ds))
    [] ev.type = "Scalar" ->
         LET node == IF ev.style # "Plain"
                       THEN String(IF ev.text = "a" THEN "'a'" ELSE ev.text)
                       ELSE from_str(ev.text)
         IN insert_new_node(dcs, ds, ks, node)
    [] OTHER -> LRes("ok", dcs, ds, ks)

on_event(dcs, ds, ks, ev) ==
  CASE ev.type = "DocumentStart" -> LRes("ok", dcs, ds, ks)
    [] ev.type = "DocumentEnd" ->
         CASE Len(ds) = 0 -> LRes("ok", Append(dcs, BadValue), ds, ks)
           [] Len(ds) = 1 -> LRes("ok", Append(dcs, ds[1]), <<>>, ks)
           [] OTHER -> LRes("panic", dcs, ds, ks)
    [] ev.type = "SequenceStart" -> LRes("ok", dcs, Append(ds, Array(<<>>)), ks)
    [] ev.type = "SequenceEnd" ->
         IF ds = <<>> THEN LRes("panic", dcs, ds, ks)
         ELSE insert_new_node(dcs, Front(ds), ks, Last(ds))
    [] ev.type = "MappingStart" ->
         LRes("ok", dcs, Append(ds, Hash(<<>>)), Append(ks, BadValue))
    [] ev.type = "MappingEnd" ->
         IF ks = <<>> \/ ds = <<>> THEN LRes("panic", dcs, ds, ks)
         ELSE insert_new_node(dcs, Front(ds), Front(ks), Last(ds))
    [] ev.type = "Scalar" ->
         LET node == IF ev.style # "Plain" THEN String(ev.text) ELSE from_str(ev.text)
         IN insert_new_node(dcs, ds, ks, node)
    [] OTHER -> LRes("ok", dcs, ds, ks)

\* the ScanError that on_event makes of a StoreError
StoreErr(mark) ==
  [mark |-> mark, msg |-> "Error handling node: Key already exists in the hash map"]

\* ---------------------------------------------------------------- Init
Init ==
  /\ indents = <<-1>>
  /\ queue = <<>>
  /\ nitems = 0
  /\ stream_start_produced = FALSE
  /\ stream_end_produced = FALSE
  /\ toks = <<>>
  /\ tpos = 0
  /\ state = "StreamStart"
  /\ states = <<>>
  /\ current = NoRet
  /\ peeked = NoRet
  /\ pc = "load"
  /\ cstack = <<>>
  /\ ret = NoRet
  /\ events = <<>>
  /\ docs = <<>>
  /\ doc_stack = <<>>
  /\ key_stack = <<>>
  /\ recv_errs = <<>>
  /\ depth = [height |-> 0, calls |-> 0]
  /\ result = NoResult

\* ---------------------------------------------------------------- accessors
\* LinkedHashMap::get(&key).unwrap_or(&BAD_VALUE)
get(h, key) ==
  IF contains_key(h, key)
    THEN h[CHOOSE i \in 1..Len(h) : h[i].key = key].value
    ELSE BadValue

\* Index<&str> for StrictYaml
index_str(n, idx) ==
  LET key == String(idx) IN
  IF n.kind = "Hash" THEN get(n.members, key) ELSE BadValue

\* Index<usize> that counts the elements from one
index_usize_fromone(n, idx) ==
  IF n.kind = "Array"
    THEN IF 1 <= idx /\ idx <= Len(n.members) THEN n.members[idx] ELSE BadValue
    ELSE BadValue

\* Index<usize> for StrictYaml
index_usize(n, idx) ==
  IF n.kind = "Array"
    THEN IF idx < Len(n.members) THEN n.members[idx + 1] ELSE BadValue
    ELSE BadValue

\* ---------------------------------------------------------------- actions
\* a next() call of the load driver is pending
Calling == pc # "done" /\ ret = NoRet

\* Parser::scan_next_token, called by peek_token when self.token is None:
\* the scanner hands out its next token, scanning one more item of the
\* input when its queue is empty
scan_next_token ==
  /\ Calling
  /\ current = NoRet
  /\ parse(state, states, tpos).tag = "need"
  /\ IF ~stream_start_produced
       THEN /\ toks' = Append(toks, Tok("StreamStart"))
            /\ stream_start_produced' = TRUE
            /\ UNCHANGED <<indents, queue, nitems, stream_end_produced>>
     ELSE IF queue # <<>>
       THEN /\ toks' = Append(toks, Head(queue))
            /\ queue' = Tail(queue)
            /\ stream_end_produced' = (stream_end_produced \/ Head(queue).type = "StreamEnd")
            /\ UNCHANGED <<indents, nitems, stream_start_produced>>
     ELSE IF stream_end_produced
       THEN /\ toks' = Append(toks, [type |-> "ScanError", text |-> "unexpected eof", style |-> ""])
            /\ UNCHANGED scannerVars
     ELSE \E it \in Items :
            /\ nitems < MaxItems \/ it.kind \in {"end", "error"}
            /\ LET r == fetch_next_token(indents, it) IN
                 /\ toks' = Append(toks, Head(r.out))
                 /\ queue' = Tail(r.out)
                 /\ indents' = r.ind
                 /\ stream_end_produced' = (Head(r.out).type = "StreamEnd")
            /\ nitems' = IF it.kind \in {"end", "error"} THEN nitems ELSE nitems + 1
            /\ UNCHANGED stream_start_produced
  /\ UNCHANGED <<tpos, state, states, current, peeked, driverVars, loaderVars, result>>

\* the tokens with the style of the first n forgotten, but for the scalar
\* that follows a Key token
Consumed(ts, n) ==
  [i \in 1..Len(ts) |->
     IF i <= n /\ ~(i > 1 /\ ts[i - 1].type = "Key")
       THEN [ts[i] EXCEPT !.style = ""] ELSE ts[i]]

\* Parser::next with an empty `current`: the handler of the current state
\* runs and its ParseResult is returned to the driver
Return(r) ==
  /\ Calling
  /\ current = NoRet
  /\ r.tag # "need"
  /\ peeked' = NoRet
  /\ state' = r.state
  /\ states' = r.states
  /\ tpos' = r.tpos
  /\ ret' = [tag |-> r.tag, ev |-> r.ev, mark |-> r.mark, msg |-> r.msg]
  /\ toks' = Consumed(toks, r.tpos)
  /\ events' = IF r.tag = "ok" THEN Append(events, [r.ev EXCEPT !.style = ""]) ELSE events
  /\ UNCHANGED <<scannerVars, current, pc, cstack, loaderVars, result>>

next_stream_start ==
  /\ state = "StreamStart"
  /\ Return(stream_start(state, states, tpos))

next_document_start ==
  /\ state \in {"ImplicitDocumentStart", "DocumentStart"}
  /\ Return(document_start(state, states, tpos, state = "ImplicitDocumentStart"))

next_document_content ==
  /\ state = "DocumentContent"
  /\ Return(document_content(state, states, tpos))

next_document_end ==
  /\ state = "DocumentEnd"
  /\ Return(document_end(state, states, tpos))

next_parse_node ==
  /\ state = "BlockNode"
  /\ Return(parse_node(state, states, tpos, TRUE, FALSE))

next_block_mapping_key ==
  /\ state \in {"BlockMappingFirstKey", "BlockMappingKey"}
  /\ Return(block_mapping_key(state, states, tpos, state = "BlockMappingFirstKey"))

next_block_mapping_value ==
  /\ state = "BlockMappingValue"
  /\ Return(block_mapping_value(state, states, tpos))

next_block_sequence_entry ==
  /\ state \in {"BlockSequenceFirstEntry", "BlockSequenceEntry"}
  /\ Return(block_sequence_entry(state, states, tpos, state = "BlockSequenceFirstEntry"))

next_indentless_sequence_entry ==
  /\ state = "IndentlessSequenceEntry"
  /\ Return(indentless_sequence_entry(state, states, tpos))

\* next that returns the event in `current` and leaves it there
next_current_keep ==
  /\ Calling
  /\ current # NoRet
  /\ ret' = current
  /\ peeked' = NoRet
  /\ events' = Append(events, [current.ev EXCEPT !.style = ""])
  /\ UNCHANGED <<scannerVars, parserVars, pc, cstack, loaderVars, result>>

\* Parser::next with an event in `current`: the event is taken out of the
\* slot and returned
next_current ==
  /\ Calling
  /\ current # NoRet
  /\ ret' = current
  /\ current' = NoRet
  /\ peeked' = NoRet
  /\ events' = Append(events, [current.ev EXCEPT !.style = ""])
  /\ UNCHANGED <<scannerVars, toks, tpos, state, states, pc, cstack, loaderVars, result>>

\* what the caller of peek() does with its value x: it goes on to next()
\* with an event, and returns the error of an Err as load does with `?`
Peeked(x) ==
  /\ peeked' = x
  /\ IF x.tag = "ok" THEN UNCHANGED <<pc, result>>
     ELSE /\ pc' = "done"
          /\ result' = [tag |-> x.tag, docs |-> <<>>,
                        err |-> IF x.tag = "err"
                                  THEN [mark |-> x.mark, msg |-> x.msg] ELSE NoErr]
  /\ UNCHANGED <<scannerVars, cstack, ret, events, loaderVars>>

\* peek that hands out a fresh event without keeping it in `current`
peek_nofill ==
  /\ Calling
  /\ LET r == parse(state, states, tpos) IN
       /\ r.tag # "need"
       /\ state' = r.state
       /\ states' = r.states
       /\ tpos' = r.tpos
       /\ toks' = Consumed(toks, r.tpos)
       /\ current' = NoRet
       /\ Peeked([tag |-> r.tag, ev |-> r.ev, mark |-> r.mark, msg |-> r.msg])

\* Parser::peek, called before a next(): an event in `current` is returned as
\* it is; otherwise the value of self.next() is stored in `current` and
\* returned, or its error is returned by the `?` with `current` left empty
peek ==
  /\ Calling
  /\ IF current # NoRet
       THEN /\ Peeked(current)
            /\ UNCHANGED <<toks, tpos, state, states, current>>
     ELSE LET r == parse(state, states, tpos)
              x == [tag |-> r.tag, ev |-> r.ev, mark |-> r.mark, msg |-> r.msg]
          IN /\ r.tag # "need"
             /\ state' = r.state
             /\ states' = r.states
             /\ tpos' = r.tpos
             /\ toks' = Consumed(toks, r.tpos)
             /\ current' = IF r.tag = "ok" THEN x ELSE NoRet
             /\ Peeked(x)

\* ---------------------------------------------------------------- load driver
\* the `?` on an Err returned by next(): load, and with it load_from_str,
\* returns that error
Propagate ==
  /\ \/ /\ ret.tag = "err"
        /\ result' = [tag |-> "err", docs |-> <<>>,
                      err |-> [mark |-> ret.mark, msg |-> ret.msg]]
     \/ /\ ret.tag = "panic"
        /\ result' = [tag |-> "panic", docs |-> <<>>, err |-> NoErr]
  /\ pc' = "done"
  /\ ret' = NoRet
  /\ UNCHANGED <<scannerVars, parserVars, peeked, cstack, events, loaderVars>>

\* a failed assert_eq! or unreachable!() of the driver
DriverPanic ==
  /\ result' = [tag |-> "panic", docs |-> <<>>, err |-> NoErr]
  /\ pc' = "done"
  /\ ret' = NoRet
  /\ UNCHANGED <<scannerVars, parserVars, peeked, cstack, events, loaderVars>>

\* recv.on_event(ev, mark); the driver goes on at newpc.  The value that
\* on_event returns is not used by the caller (parser.rs:164-252).
Deliver(ev, mark, newpc, newcstack) ==
  LET lr == on_event(docs, doc_stack, key_stack, ev) IN
  /\ docs' = lr.docs
  /\ doc_stack' = lr.doc_stack
  /\ key_stack' = lr.key_stack
  /\ recv_errs' = IF lr.tag = "RepeatedHashKey"
                    THEN Append(recv_errs, StoreErr(mark)) ELSE recv_errs
  /\ depth' = IF ev.type = "DocumentStart" THEN [height |-> 0, calls |-> 0]
               ELSE [height |-> IF Len(lr.doc_stack) > depth.height
                                  THEN Len(lr.doc_stack) ELSE depth.height,
                     calls |-> IF ev.type \in {"Scalar", "SequenceStart", "MappingStart"}
                                    /\ Len(cstack) + 1 > depth.calls
                                 THEN Len(cstack) + 1 ELSE depth.calls]
  /\ ret' = NoRet
  /\ cstack' = newcstack
  /\ IF lr.tag = "panic"
       THEN /\ pc' = "done"
            /\ result' = [tag |-> "panic", docs |-> <<>>, err |-> NoErr]
     ELSE IF newpc = "done"
       THEN /\ pc' = "done"
            /\ result' = [tag |-> "ok", docs |-> lr.docs, err |-> NoErr]
     ELSE /\ pc' = newpc
          /\ UNCHANGED result
  /\ UNCHANGED <<scannerVars, parserVars, peeked, events>>

\* Parser::load_node(first_ev, mark, recv), called where the caller goes on
\* at cont once the node is complete
load_node(first_ev, mark, cont) ==
  CASE first_ev.type = "Scalar" -> Deliver(first_ev, mark, cont, cstack)
    [] first_ev.type = "SequenceStart" ->
         Deliver(first_ev, mark, "load_sequence", Append(cstack, cont))
    [] first_ev.type = "MappingStart" ->
         Deliver(first_ev, mark, "load_mapping_key", Append(cstack, cont))
    [] OTHER -> DriverPanic

\* Parser::load(recv, multi = true), with the head of load_document
load ==
  /\ pc \in {"load", "load_loop"}
  /\ ret # NoRet
  /\ IF ret.tag # "ok" THEN Propagate
     ELSE IF pc = "load"
       THEN IF ret.ev.type # "StreamStart" THEN DriverPanic
            ELSE IF stream_end_produced
              THEN Deliver(Ev("StreamEnd"), Len(toks), "done", cstack)
              ELSE Deliver(ret.ev, ret.mark, "load_loop", cstack)
     ELSE IF ret.ev.type = "StreamEnd"
       THEN Deliver(ret.ev, ret.mark, "done", cstack)
     ELSE IF ret.ev.type # "DocumentStart" THEN DriverPanic
     ELSE Deliver(ret.ev, ret.mark, "load_document_node", cstack)

\* load_document followed by the `break` of a load with multi = false
load_document_single ==
  /\ pc \in {"load_document_node", "load_document_end"}
  /\ ret # NoRet
  /\ IF ret.tag # "ok" THEN Propagate
     ELSE IF pc = "load_document_node"
       THEN load_node(ret.ev, ret.mark, "load_document_end")
     ELSE IF ret.ev.type # "DocumentEnd" THEN DriverPanic
     ELSE Deliver(ret.ev, ret.mark, "done", cstack)

\* Parser::load_document after the DocumentStart event
load_document ==
  /\ pc \in {"load_document_node", "load_document_end"}
  /\ ret # NoRet
  /\ IF ret.tag # "ok" THEN Propagate
     ELSE IF pc = "load_document_node"
       THEN load_node(ret.ev, ret.mark, "load_document_end")
     ELSE IF ret.ev.type # "DocumentEnd" THEN DriverPanic
     ELSE Deliver(ret.ev, ret.mark, "load_loop", cstack)

\* Parser::load_mapping
load_mapping ==
  /\ pc \in {"load_mapping_key", "load_mapping_value"}
  /\ ret # NoRet
  /\ IF ret.tag # "ok" THEN Propagate
     ELSE IF pc = "load_mapping_key"
       THEN IF ret.ev.type = "MappingEnd"
              THEN Deliver(ret.ev, ret.mark, Last(cstack), Front(cstack))
              ELSE load_node(ret.ev, ret.mark, "load_mapping_value")
     ELSE load_node(ret.ev, ret.mark, "load_mapping_key")

\* Parser::load_sequence
load_sequence ==
  /\ pc = "load_sequence"
  /\ ret # NoRet
  /\ IF ret.tag # "ok" THEN Propagate
     ELSE IF ret.ev.type = "SequenceEnd"
       THEN Deliver(ret.ev, ret.mark, Last(cstack), Front(cstack))
       ELSE load_node(ret.ev, ret.mark, "load_sequence")

Next ==
  \/ scan_next_token
  \/ next_stream_start
  \/ next_document_start
  \/ next_document_content
  \/ next_document_end
  \/ next_parse_node
  \/ next_block_mapping_key
  \/ next_block_mapping_value
  \/ next_block_sequence_entry
  \/ next_indentless_sequence_entry
  \/ load
  \/ load_document
  \/ load_mapping
  \/ load_sequence

\* StrictYamlLoader::load_from_str on any input
Spec == Init /\ [][Next]_vars

\* the parser under a caller that, like test_peek_eq_parse, may call peek()
\* before each next()
PeekNext == Next \/ peek \/ next_current

PeekSpec == Init /\ [][PeekNext]_vars

\* every token a scanner could hand out after StreamStart
AnyToks ==
  {Tok(t) : t \in {"StreamEnd", "DocumentStart", "DocumentEnd", "VersionDirective",
                   "BlockSequenceStart", "BlockMappingStart", "BlockEnd",
                   "BlockEntry", "Key", "Value"}}
  \cup {ScalarTok("a", "Plain")}

\* Parser::scan_next_token on a token stream of any shape: StreamStart, then
\* whatever token comes
scan_any_token ==
  /\ Calling
  /\ current = NoRet
  /\ parse(state, states, tpos).tag = "need"
  /\ Len(toks) < MaxToks
  /\ \E t \in (IF toks = <<>> THEN {Tok("StreamStart")} ELSE AnyToks) :
       toks' = Append(toks, t)
  /\ UNCHANGED <<scannerVars, tpos, state, states, current, peeked,
                 driverVars, loaderVars, result>>

AnyNext ==
  \/ scan_any_token
  \/ next_stream_start
  \/ next_document_start
  \/ next_document_content
  \/ next_document_end
  \/ next_parse_node
  \/ next_block_mapping_key
  \/ next_block_mapping_value
  \/ next_block_sequence_entry
  \/ next_indentless_sequence_entry
  \/ load
  \/ load_document
  \/ load_mapping
  \/ load_sequence

\* the load of a token stream of any shape, well formed or not
AnySpec == Init /\ [][AnyNext]_vars

\* the items of inputs made of sequence entries, simple keys a and `---`
DeepItems ==
  {it \in Items :
     \/ it.kind \in {"entry", "end"}
     \/ it.kind = "simplekey" /\ it.tok = ScalarTok("a", "Plain")
     \/ it.kind = "marker" /\ it.tok = Tok("DocumentStart")}

\* Parser::scan_next_token on the inputs of up to MaxDeepItems of these items
scan_deep_token ==
  /\ Calling
  /\ current = NoRet
  /\ parse(state, states, tpos).tag = "need"
  /\ IF ~stream_start_produced
       THEN /\ toks' = Append(toks, Tok("StreamStart"))
            /\ stream_start_produced' = TRUE
            /\ UNCHANGED <<indents, queue, nitems, stream_end_produced>>
     ELSE IF queue # <<>>
       THEN /\ toks' = Append(toks, Head(queue))
            /\ queue' = Tail(queue)
            /\ stream_end_produced' = (stream_end_produced \/ Head(queue).type = "StreamEnd")
            /\ UNCHANGED <<indents, nitems, stream_start_produced>>
     ELSE IF stream_end_produced
       THEN /\ toks' = Append(toks, [type |-> "ScanError", text |-> "unexpected eof", style |-> ""])
            /\ UNCHANGED scannerVars
     ELSE \E it \in DeepItems :
            /\ nitems < MaxDeepItems \/ it.kind = "end"
            /\ LET r == fetch_next_token(indents, it) IN
                 /\ toks' = Append(toks, Head(r.out))
                 /\ queue' = Tail(r.out)
                 /\ indents' = r.ind
                 /\ stream_end_produced' = (Head(r.out).type = "StreamEnd")
            /\ nitems' = IF it.kind = "end" THEN nitems ELSE nitems + 1
            /\ UNCHANGED stream_start_produced
  /\ UNCHANGED <<tpos, state, states, current, peeked, driverVars, loaderVars, result>>

DeepNext ==
  \/ scan_deep_token
  \/ next_stream_start
  \/ next_document_start
  \/ next_document_content
  \/ next_document_end
  \/ next_parse_node
  \/ next_block_mapping_key
  \/ next_block_mapping_value
  \/ next_block_sequence_entry
  \/ next_indentless_sequence_entry
  \/ load
  \/ load_document
  \/ load_mapping
  \/ load_sequence

\* the load of the longer inputs of few kinds of item
DeepSpec == Init /\ [][DeepNext]_vars

\* the load has returned Ok, after the StreamEnd event, and the caller goes
\* on calling the parser
AfterEnd == pc = "done" /\ result.tag = "ok"

\* Parser::next called after the end of the stream: the event in `current`
\* if there is one, else the value of parse(), for which peek_token calls the
\* scanner when it runs out of tokens
next_after_end ==
  /\ AfterEnd
  /\ Cardinality({i \in 1..Len(events) : events[i].type = "StreamEnd"}) <= MaxAfterEnd
  /\ IF current # NoRet
       THEN /\ ret' = current
            /\ current' = NoRet
            /\ events' = Append(events, [current.ev EXCEPT !.style = ""])
            /\ UNCHANGED <<toks, tpos, state, states>>
     ELSE LET r == parse(state, states, tpos) IN
       IF r.tag = "need"
         THEN /\ toks' = Append(toks, [type |-> "ScanError", text |-> "unexpected eof", style |-> ""])
              /\ UNCHANGED <<tpos, state, states, current, ret, events>>
         ELSE /\ state' = r.state
              /\ states' = r.states
              /\ tpos' = r.tpos
              /\ toks' = Consumed(toks, r.tpos)
              /\ ret' = [tag |-> r.tag, ev |-> r.ev, mark |-> r.mark, msg |-> r.msg]
              /\ events' = IF r.tag = "ok"
                             THEN Append(events, [r.ev EXCEPT !.style = ""]) ELSE events
              /\ UNCHANGED current
  /\ peeked' = NoRet
  /\ UNCHANGED <<scannerVars, pc, cstack, loaderVars, result>>

\* Parser::peek called after the end of the stream
peek_after_end ==
  /\ AfterEnd
  /\ IF current # NoRet
       THEN /\ peeked' = current
            /\ UNCHANGED <<toks, tpos, state, states, current>>
     ELSE LET r == parse(state, states, tpos)
              x == [tag |-> r.tag, ev |-> r.ev, mark |-> r.mark, msg |-> r.msg]
          IN IF r.tag = "need"
               THEN /\ toks' = Append(toks, [type |-> "ScanError", text |-> "unexpected eof", style |-> ""])
                    /\ UNCHANGED <<tpos, state, states, current, peeked>>
               ELSE /\ state' = r.state
                    /\ states' = r.states
                    /\ tpos' = r.tpos
                    /\ toks' = Consumed(toks, r.tpos)
                    /\ current' = IF r.tag = "ok" THEN x ELSE NoRet
                    /\ peeked' = x
  /\ UNCHANGED <<scannerVars, pc, cstack, ret, events, loaderVars, result>>

EndNext ==
  \/ Next
  \/ next_after_end
  \/ peek_after_end

\* the load, and a caller that calls next() and peek() again after it
EndSpec == Init /\ [][EndNext]_vars

\* load is a sequential loop: it goes on calling next() and on_event until
\* it returns
LiveSpec == Spec /\ WF_vars(Next)

TypeOK ==
  /\ result.tag \in {"none", "ok", "err", "panic"}
  /\ tpos <= Len(toks)

\* ---------------------------------------------------------------- claims
Done == pc = "done"

Returned == result.tag = "ok"

Range(s) == {s[i] : i \in 1..Len(s)}

\* every node the loader holds or has returned
Held == Range(docs) \cup Range(doc_stack) \cup Range(key_stack) \cup Range(result.docs)

\* C1: whenever insert_new_node has raised RepeatedHashKey (a block mapping
\* holds the same key twice), load_from_str returns an error, and that error
\* is the RepeatedHashKey error; it never returns a document list.
C1_RepeatedKeyIsError ==
  (Done /\ recv_errs # <<>>) => (result.tag = "err" /\ result.err = recv_errs[1])

RECURSIVE KeysDistinct(_)
KeysDistinct(n) ==
  CASE n.kind = "Array" ->
         \A i \in 1..Len(n.members) : KeysDistinct(n.members[i])
    [] n.kind = "Hash" ->
         /\ \A i, j \in 1..Len(n.members) :
              i # j => n.members[i].key # n.members[j].key
         /\ \A i \in 1..Len(n.members) :
              KeysDistinct(n.members[i].key) /\ KeysDistinct(n.members[i].value)
    [] OTHER -> TRUE

RECURSIVE Leaves(_), LeavesOfSeq(_), LeavesOfEntries(_)
\* the leaves below a container, in iteration order
MemberLeaves(n) ==
  CASE n.kind = "Array" -> LeavesOfSeq(n.members)
    [] n.kind = "Hash" -> LeavesOfEntries(n.members)
    [] OTHER -> <<>>

\* the leaves of a tree: its nodes without children, in iteration order
Leaves(n) ==
  IF n.kind \in {"Array", "Hash"} /\ n.members # <<>> THEN MemberLeaves(n) ELSE <<n>>

LeavesOfSeq(s) ==
  IF s = <<>> THEN <<>> ELSE Leaves(Head(s)) \o LeavesOfSeq(Tail(s))

LeavesOfEntries(s) ==
  IF s = <<>> THEN <<>>
  ELSE Leaves(Head(s).key) \o Leaves(Head(s).value) \o LeavesOfEntries(Tail(s))

RECURSIVE StackLeaves(_, _)
\* the leaves received so far by the containers still open on doc_stack
\* (or the completed root), each Hash followed by its pending key
StackLeaves(ds, ks) ==
  IF ds = <<>> THEN <<>>
  ELSE LET n == Head(ds) IN
    CASE n.kind = "Hash" ->
           MemberLeaves(n)
           \o (IF ks = <<>> \/ is_badvalue(Head(ks)) THEN <<>> ELSE Leaves(Head(ks)))
           \o StackLeaves(Tail(ds), IF ks = <<>> THEN ks ELSE Tail(ks))
      [] n.kind = "Array" -> MemberLeaves(n) \o StackLeaves(Tail(ds), ks)
      [] OTHER -> <<n>> \o StackLeaves(Tail(ds), ks)

\* every leaf the loader holds, in document order
AllLeaves == LeavesOfSeq(docs) \o StackLeaves(doc_stack, key_stack)

\* the driver hands the event returned by next() to on_event in this step
Handles(type) == ret.tag = "ok" /\ ret.ev.type = type /\ ret' = NoRet

Rejected == recv_errs' # recv_errs

\* C3: every Scalar event the loader handles, of whatever style, adds exactly
\* one node, a String with exactly the event's text, after all earlier leaves
\* and changes nothing else (when the pair it completes is rejected as a
\* repeated key, nothing is added).
C3_ScalarIsString ==
  [][Handles("Scalar") =>
       IF Rejected THEN Len(AllLeaves') < Len(AllLeaves)
       ELSE AllLeaves' = Append(AllLeaves, String(ret.ev.text))]_vars

\* the plain scalar ~ and a scalar a have been loaded as key and value
C3_Witness ==
  /\ Returned
  /\ result.docs = <<Hash(<<[key |-> String("~"), value |-> String("a")]>>)>>

\* C4: every leaf of every returned document is a String.
C4_LeavesAreStrings ==
  Returned => \A n \in Range(LeavesOfSeq(result.docs)) : n.kind = "String"

\* a returned sequence whose only entry was left empty
C4_Witness == Returned /\ result.docs = <<Array(<<String("")>>)>>

RECURSIVE NoBadValue(_)
NoBadValue(n) ==
  /\ n.kind # "BadValue"
  /\ n.kind = "Array" => \A i \in 1..Len(n.members) : NoBadValue(n.members[i])
  /\ n.kind = "Hash" =>
       \A i \in 1..Len(n.members) :
         NoBadValue(n.members[i].key) /\ NoBadValue(n.members[i].value)

\* C5: no returned document is or contains BadValue, and a DocumentEnd event
\* never reaches the loader with an empty doc_stack.
C5_NoBadValue ==
  /\ Returned => \A i \in 1..Len(result.docs) : NoBadValue(result.docs[i])
  /\ (ret.tag = "ok" /\ ret.ev.type = "DocumentEnd") => doc_stack # <<>>

\* an empty document followed by a mapping whose value is missing
C5_Witness ==
  /\ Returned
  /\ result.docs = <<String(""), Hash(<<[key |-> String("a"), value |-> String("")]>>)>>

\* C6: a Hash iterates in insertion order: each commit puts the pending key
\* and its value after all earlier entries and leaves those in place, and a
\* completed container moves into its parent or into docs with its order
\* unchanged.
C6_HashOrder ==
  [][/\ \A i \in 1..Len(doc_stack) :
          (i <= Len(doc_stack') /\ doc_stack[i].kind = "Hash") =>
            LET h == doc_stack[i].members
                h2 == doc_stack'[i].members
            IN /\ doc_stack'[i].kind = "Hash"
               /\ \/ h2 = h
                  \/ /\ Len(h2) = Len(h) + 1
                     /\ SubSeq(h2, 1, Len(h)) = h
                     /\ h2[Len(h2)].key \in Range(key_stack)
     /\ (\E t \in {"SequenceEnd", "MappingEnd", "DocumentEnd"} : Handles(t))
          /\ ~Rejected => AllLeaves' = AllLeaves]_vars

\* a returned Hash whose keys ~ and a are iterated as they occurred, ~ first
C6_Witness ==
  /\ Returned
  /\ result.docs = <<Hash(<<[key |-> String("~"), value |-> String("")],
                           [key |-> String("a"), value |-> String("")]>>)>>

\* the types of the tokens scanned so far, and of the events returned so far
TokTypes == [i \in 1..Len(toks) |-> toks[i].type]

EvTypes == [i \in 1..Len(events) |-> events[i].type]

\* the positions of the tokens after which a document's content starts:
\* each DocumentStart token, and the StreamStart token of a stream that
\* starts with content
DocStarts ==
  {i \in 1..Len(toks) :
     \/ toks[i].type = "DocumentStart"
     \/ /\ i = 1 /\ Len(toks) >= 2
        /\ toks[2].type \notin {"StreamEnd", "DocumentStart"} \cup Directives}

\* the number, in stream order, of the document that starts at i
DocNo(i) == Cardinality({j \in DocStarts : j <= i})

\* the root that the document starting with token t has
RootOf(n, t) ==
  CASE t.type = "Scalar" -> n = String(t.text)
    [] t.type = "BlockSequenceStart" -> n.kind = "Array"
    [] t.type = "BlockMappingStart" -> n.kind = "Hash"
    [] OTHER -> n = String("")

\* the DocumentEnd events the loader has handled
HandledDocumentEnds ==
  Cardinality({i \in 1..Len(events) : events[i].type = "DocumentEnd"})
  - (IF ret.tag = "ok" /\ ret.ev.type = "DocumentEnd" THEN 1 ELSE 0)

\* C7: docs holds one tree per DocumentEnd event handled, and a successful
\* load of a stream of n documents returns exactly n trees, the k-th being
\* the root of the k-th document of the stream.
C7_DocsInStreamOrder ==
  /\ Len(docs) = HandledDocumentEnds
  /\ Returned =>
       /\ result.docs = docs
       /\ Len(result.docs) = Cardinality(DocStarts)
       /\ \A i \in DocStarts : RootOf(result.docs[DocNo(i)], toks[i + 1])

\* three documents, a scalar and two more started by ---, have been returned
C7_Witness ==
  /\ Returned
  /\ Len(result.docs) = 3
  /\ result.docs[1] = String("a")
  /\ Cardinality({i \in 1..Len(toks) : toks[i].type = "DocumentStart"}) = 2

IsPrefix(s, t) == Len(s) <= Len(t) /\ \A i \in 1..Len(s) : s[i] = t[i]

EmptyInput == Len(toks) >= 2 /\ toks[2].type = "StreamEnd"

\* C8: when StreamStart is immediately followed by StreamEnd the parser
\* emits only StreamStart and StreamEnd, docs stays empty and the load
\* returns Ok with an empty document list.
C8_EmptyInput ==
  EmptyInput =>
    /\ IsPrefix(EvTypes, <<"StreamStart", "StreamEnd">>)
    /\ docs = <<>>
    /\ Done => (Returned /\ result.docs = <<>>)

\* the load of an empty input has returned
C8_Witness ==
  /\ Done
  /\ EmptyInput
  /\ EvTypes = <<"StreamStart", "StreamEnd">>
  /\ result = [tag |-> "ok", docs |-> <<>>, err |-> NoErr]

\* the explicit document starts that no content follows
EmptyExplicit ==
  {i \in 1..Len(toks) - 1 :
     /\ toks[i].type = "DocumentStart"
     /\ toks[i + 1].type \in
          Directives \cup {"DocumentStart", "DocumentEnd", "StreamEnd"}}

\* C9: an explicit document start with no content before the next directive,
\* DocumentStart, DocumentEnd or StreamEnd token yields a document whose
\* root is the empty String, and the input --- alone yields exactly
\* [String("")].
C9_EmptyExplicitDocument ==
  /\ Returned => \A i \in EmptyExplicit : result.docs[DocNo(i)] = String("")
  /\ (Done /\ TokTypes = <<"StreamStart", "DocumentStart", "StreamEnd">>) =>
       (Returned /\ result.docs = <<String("")>>)

\* the load of the input --- has returned
C9_Witness ==
  /\ Returned
  /\ TokTypes = <<"StreamStart", "DocumentStart", "StreamEnd">>
  /\ result.docs = <<String("")>>

\* C10: the first error raised by the scanner, the parser or the loader ends
\* the load, which returns only that error and no document.
C10_FirstErrorAborts ==
  /\ ret.tag = "err" => recv_errs = <<>>
  /\ recv_errs # <<>> =>
       /\ Done
       /\ result = [tag |-> "err", docs |-> <<>>, err |-> recv_errs[1]]

\* C11: parsing always terminates: the events returned never outnumber twice
\* the tokens consumed by more than two, so no cycle of parser states emits
\* events without consuming a token, and every load ends, with Ok or with
\* an error.
C11_Terminates ==
  /\ [](Len(events) <= 2 * tpos + 2)
  /\ <>(Done /\ result.tag \in {"ok", "err"})

\* a load has ended whose parser went through an indentless sequence of two
\* entries that were left empty
C11_Witness ==
  /\ Returned
  /\ result.docs = <<Hash(<<[key |-> String("a"),
                             value |-> Array(<<String(""), String("")>>)]>>)>>
  /\ \A i \in 1..Len(toks) : toks[i].type # "BlockSequenceStart"

\* the frame on top of a stack of open brackets once a node was completed
\* under it
NodeDone(stk) ==
  CASE stk = <<>> -> <<"Bad">>
    [] Last(stk) = "Doc" -> Append(Front(stk), "DocFull")
    [] Last(stk) = "Seq" -> stk
    [] Last(stk) = "MapKey" -> Append(Front(stk), "MapValue")
    [] Last(stk) = "MapValue" -> Append(Front(stk), "MapKey")
    [] OTHER -> <<"Bad">>

Top(stk) == IF stk = <<>> THEN "None" ELSE Last(stk)

\* the open brackets after event type e, <<"Bad">> when e does not fit the
\* grammar  stream ::= StreamStart doc* StreamEnd,
\* doc ::= DocumentStart node DocumentEnd,
\* node ::= Scalar | SequenceStart node* SequenceEnd | MappingStart node* MappingEnd
Bracket(stk, e) ==
  LET room == Top(stk) \in {"Doc", "Seq", "MapKey", "MapValue"} IN
  CASE e = "StreamStart" -> IF stk = <<>> THEN <<"Stream">> ELSE <<"Bad">>
    [] e = "StreamEnd" -> IF stk = <<"Stream">> THEN <<"End">> ELSE <<"Bad">>
    [] e = "DocumentStart" ->
         IF stk = <<"Stream">> THEN <<"Stream", "Doc">> ELSE <<"Bad">>
    [] e = "DocumentEnd" -> IF Top(stk) = "DocFull" THEN Front(stk) ELSE <<"Bad">>
    [] e = "Scalar" -> IF room THEN NodeDone(stk) ELSE <<"Bad">>
    [] e = "SequenceStart" -> IF room THEN Append(stk, "Seq") ELSE <<"Bad">>
    [] e = "MappingStart" -> IF room THEN Append(stk, "MapKey") ELSE <<"Bad">>
    [] e = "SequenceEnd" -> IF Top(stk) = "Seq" THEN NodeDone(Front(stk)) ELSE <<"Bad">>
    [] e = "MappingEnd" ->
         IF Top(stk) \in {"MapKey", "MapValue"} THEN NodeDone(Front(stk)) ELSE <<"Bad">>
    [] OTHER -> <<"Bad">>

RECURSIVE OpenAt(_)
\* the brackets open after the first n events
OpenAt(n) == IF n = 0 THEN <<>> ELSE Bracket(OpenAt(n - 1), events[n].type)

RECURSIVE PreOrder(_), PreOrderSeq(_), PreOrderEntries(_)
\* the events of a tree in depth-first pre-order
PreOrder(n) ==
  CASE n.kind = "Array" ->
         <<Ev("SequenceStart")>> \o PreOrderSeq(n.members) \o <<Ev("SequenceEnd")>>
    [] n.kind = "Hash" ->
         <<Ev("MappingStart")>> \o PreOrderEntries(n.members) \o <<Ev("MappingEnd")>>
    [] OTHER -> <<[type |-> "Scalar", text |-> n.text, style |-> ""]>>

PreOrderSeq(s) ==
  IF s = <<>> THEN <<>> ELSE PreOrder(Head(s)) \o PreOrderSeq(Tail(s))

PreOrderEntries(s) ==
  IF s = <<>> THEN <<>>
  ELSE PreOrder(Head(s).key) \o PreOrder(Head(s).value) \o PreOrderEntries(Tail(s))

RECURSIVE PreOrderDocs(_)
PreOrderDocs(s) ==
  IF s = <<>> THEN <<>>
  ELSE <<Ev("DocumentStart")>> \o PreOrder(Head(s)) \o <<Ev("DocumentEnd")>>
       \o PreOrderDocs(Tail(s))

\* C12: the emitted events are well bracketed: no event is emitted that does
\* not fit the open brackets, an accepted stream leaves none open, and its
\* events are the depth-first pre-order of the trees the driver built from
\* them (a pair the loader rejected as a repeated key leaves its events
\* without a node).
C12_WellBracketed ==
  /\ OpenAt(Len(events)) # <<"Bad">>
  /\ result.tag # "panic"
  /\ Returned => OpenAt(Len(events)) = <<"End">>
  /\ (Returned /\ recv_errs = <<>>) =>
       events = <<Ev("StreamStart")>> \o PreOrderDocs(result.docs) \o <<Ev("StreamEnd")>>

\* an accepted stream of two documents, a mapping holding a sequence and a
\* scalar
C12_Witness ==
  /\ Returned
  /\ EvTypes = <<"StreamStart", "DocumentStart", "MappingStart", "Scalar",
                 "SequenceStart", "Scalar", "SequenceEnd", "MappingEnd",
                 "DocumentEnd", "DocumentStart", "Scalar", "DocumentEnd", "StreamEnd">>

\* C13: MappingEnd is only emitted in key position: between a MappingStart
\* and its MappingEnd the direct child nodes are key, value, key, value, ...
C13_MappingEndInKeyPosition ==
  \A i \in 1..Len(events) :
    events[i].type = "MappingEnd" => Top(OpenAt(i - 1)) = "MapKey"

\* a mapping whose only key has no value has been closed after the empty
\* scalar that stands for the value
C13_Witness ==
  /\ TokTypes = <<"StreamStart", "BlockMappingStart", "Key", "Scalar", "BlockEnd">>
  /\ EvTypes = <<"StreamStart", "DocumentStart", "MappingStart", "Scalar",
                 "Scalar", "MappingEnd">>

\* C14: the next() that follows a peek() which returned an event returns the
\* same (event, position) pair, and until that next() every peek() returns
\* that pair again and nothing of the parser changes.
C14_PeekThenNext ==
  [][peeked.tag = "ok" =>
       /\ ret' # ret => ret' = peeked
       /\ ret' = ret =>
            /\ current = peeked
            /\ UNCHANGED <<peeked, toks, tpos, state, states, current, events>>]_vars

\* a peek() has returned a Scalar event, which waits in the slot for the
\* next() that follows
C14_Witness ==
  /\ peeked.tag = "ok"
  /\ peeked.ev = [type |-> "Scalar", text |-> "a", style |-> "DoubleQuoted"]
  /\ current = peeked
  /\ ret = NoRet

RECURSIVE ParseRun(_, _, _, _)
\* the first n events of the parser called with next() alone on the tokens
\* scanned so far
ParseRun(st, sts, pos, n) ==
  IF n = 0 THEN <<>>
  ELSE LET r == parse(st, sts, pos) IN
    IF r.tag # "ok" THEN <<>>
    ELSE <<[r.ev EXCEPT !.style = ""]>> \o ParseRun(r.state, r.states, r.tpos, n - 1)

\* the events the parser has computed: those returned by next(), and the one
\* waiting in the slot
Computed ==
  events \o (IF current = NoRet THEN <<>> ELSE <<[current.ev EXCEPT !.style = ""]>>)

\* C15: with peek() calls interleaved, the events returned by next() are those
\* that next() alone returns on the same tokens.
C15_PeekUnobservable ==
  Computed = ParseRun("StreamStart", <<>>, 0, Len(Computed))

\* the caller has peeked the StreamEnd event that ends a stream of two
\* documents, after taking all events before it with next()
C15_Witness ==
  /\ current.tag = "ok"
  /\ current.ev.type = "StreamEnd"
  /\ Len(docs) = 2
  /\ Len(events) >= 7

\* C16: the repeated-key error carries the position of the second occurrence
\* of the key: the token at its mark is the scalar of a key.
C16_ErrorAtSecondKey ==
  \A i \in 1..Len(recv_errs) :
    LET m == recv_errs[i].mark IN
    /\ m \in 2..Len(toks)
    /\ toks[m].type = "Scalar"
    /\ toks[m - 1].type = "Key"
    /\ result.tag = "err" => result.err.mark = m

RECURSIVE Nodes(_)
\* a node and every node below it
Nodes(n) ==
  {n} \cup
  (CASE n.kind = "Array" -> UNION {Nodes(n.members[i]) : i \in 1..Len(n.members)}
     [] n.kind = "Hash" ->
          UNION {Nodes(n.members[i].key) \cup Nodes(n.members[i].value) :
                 i \in 1..Len(n.members)}
     [] OTHER -> {})

\* the nodes a caller can index: the returned trees, their parts, BadValue
Indexable == {BadValue} \cup UNION {Nodes(result.docs[i]) : i \in 1..Len(result.docs)}

LookupKeys == {"a", "~", "", "d"}

\* C17: index lookups are total: by string key they give the value stored
\* under String(key) in a Hash and BadValue otherwise; by integer they give
\* the element of an Array at an index in bounds and BadValue otherwise; a
\* lookup through a missing key gives BadValue.
C17_IndexTotal ==
  \A n \in Indexable :
    /\ \A k \in LookupKeys :
         LET hits == IF n.kind = "Hash"
                       THEN {i \in 1..Len(n.members) : n.members[i].key = String(k)}
                       ELSE {}
         IN /\ \A i \in hits : index_str(n, k) = n.members[i].value
            /\ hits = {} =>
                 /\ index_str(n, k) = BadValue
                 /\ \A j \in 0..MaxItems : index_usize(index_str(n, k), j) = BadValue
    /\ \A j \in 0..MaxItems :
         IF n.kind = "Array" /\ j < Len(n.members)
           THEN /\ index_usize(n, j) = n.members[j + 1]
                /\ index_usize(n, j) \in Nodes(n) \ {n}
           ELSE index_usize(n, j) = BadValue

\* a returned document a: [a] in which doc["a"][0] is found and doc["d"][0]
\* is BadValue
C17_Witness ==
  /\ Returned
  /\ Len(result.docs) = 1
  /\ index_usize(index_str(result.docs[1], "a"), 0) = String("a")
  /\ is_badvalue(index_usize(index_str(result.docs[1], "d"), 0))

\* how many elements of s are x
Count(s, x) == Cardinality({i \in 1..Len(s) : s[i] = x})

\* C18: flow-collection text is not parsed as a collection: the parser emits
\* SequenceStart and MappingStart only at block tokens, never at a Scalar
\* token, and every scalar of bracket text is loaded as the String of that text
\* (zug: [1, 2] gives a Hash whose value for zug is the String "[1, 2]").
C18_FlowTextIsString ==
  /\ (ret.tag = "ok" /\ ret.ev.type = "SequenceStart") =>
       toks[ret.mark].type \in {"BlockSequenceStart", "BlockEntry"}
  /\ (ret.tag = "ok" /\ ret.ev.type = "MappingStart") =>
       toks[ret.mark].type = "BlockMappingStart"
  /\ (Returned /\ recv_errs = <<>>) =>
       Count(LeavesOfSeq(result.docs), String(FlowText))
         = Count([i \in 1..Len(toks) |-> toks[i].text], FlowText)
  /\ (/\ Returned
      /\ TokTypes = <<"StreamStart", "BlockMappingStart", "Key", "Scalar", "Value",
                      "Scalar", "BlockEnd", "StreamEnd">>
      /\ toks[6].text = FlowText) =>
       result.docs = <<Hash(<<[key |-> String(toks[4].text), value |-> String(FlowText)]>>)>>

\* the input a: [1, 2] has been loaded
C18_Witness ==
  /\ Returned
  /\ result.docs = <<Hash(<<[key |-> String("a"), value |-> String(FlowText)]>>)>>

\* the type of the i-th token scanned, "None" when it is not scanned yet
TypeAt(i) == IF i \in 1..Len(toks) THEN toks[i].type ELSE "None"

\* where the handler of the current state starts to look: a first-key or
\* first-entry state skips the block start token before
Base ==
  IF state \in {"BlockMappingFirstKey", "BlockSequenceFirstEntry"} THEN tpos + 1 ELSE tpos

\* the position of the token that reveals a missing key, value or entry to
\* the handler of the current state, 0 when nothing is missing
Revealing ==
  LET t1 == TypeAt(Base + 1)
      t2 == TypeAt(Base + 2)
  IN CASE state \in {"BlockMappingFirstKey", "BlockMappingKey"}
            /\ t1 = "Key" /\ t2 \in {"Key", "Value", "BlockEnd"} -> Base + 2
       [] state \in {"BlockMappingFirstKey", "BlockMappingKey"} /\ t1 = "Value" -> Base + 1
       [] state = "BlockMappingValue"
            /\ t1 = "Value" /\ t2 \in {"Key", "Value", "BlockEnd"} -> Base + 2
       [] state = "BlockMappingValue" /\ t1 \notin {"Value", "None", "ScanError"} -> Base + 1
       [] state \in {"BlockSequenceFirstEntry", "BlockSequenceEntry"}
            /\ t1 = "BlockEntry" /\ t2 \in {"BlockEntry", "BlockEnd"} -> Base + 2
       [] state = "IndentlessSequenceEntry"
            /\ t1 = "BlockEntry" /\ t2 \in {"BlockEntry", "Key", "Value", "BlockEnd"} -> Base + 2
       [] OTHER -> 0

\* C20: where a key, a value or a sequence entry is missing, next() returns
\* exactly one Scalar event with empty text and Plain style, at the token
\* that revealed the omission, and consumes the tokens before that token only.
C20_EmptyScalarRule ==
  [][(Revealing # 0 /\ ret = NoRet /\ ret' # NoRet) =>
       /\ ret'.tag = "ok"
       /\ ret'.ev = [type |-> "Scalar", text |-> "", style |-> "Plain"]
       /\ ret'.mark = Revealing
       /\ tpos' = Revealing - 1
       /\ Len(events') = Len(events) + 1]_vars

\* the empty scalar for the key missing before a Value token has been
\* returned, and the Value token is still to be consumed
C20_Witness ==
  /\ ret.tag = "ok"
  /\ ret.ev = [type |-> "Scalar", text |-> "", style |-> "Plain"]
  /\ state = "BlockMappingValue"
  /\ toks[ret.mark].type = "Value"
  /\ tpos = ret.mark - 1

\* the tokens a node may start with
NodeToks(indentless_sequence) ==
  {"Scalar", "BlockSequenceStart", "BlockMappingStart"}
  \cup (IF indentless_sequence THEN {"BlockEntry"} ELSE {})

NotYet == {"None", "ScanError"}

NoReject == [pos |-> 0, msg |-> ""]

\* the position of the token that the handler of the current state cannot
\* accept, with the message for it; position 0 when there is none
Unaccepted ==
  LET t1 == TypeAt(Base + 1)
      t2 == TypeAt(Base + 2)
      node == "while parsing a node, did not find expected node content"
  IN CASE state = "StreamStart" /\ t1 \notin {"StreamStart"} \cup NotYet ->
            [pos |-> Base + 1, msg |-> "did not find expected <stream-start>"]
       [] state = "BlockNode" /\ t1 \notin NodeToks(FALSE) \cup NotYet ->
            [pos |-> Base + 1, msg |-> node]
       [] state \in {"BlockMappingFirstKey", "BlockMappingKey"}
            /\ t1 \notin {"Key", "Value", "BlockEnd"} \cup NotYet ->
            [pos |-> Base + 1,
             msg |-> "while parsing a block mapping, did not find expected key"]
       [] state \in {"BlockMappingFirstKey", "BlockMappingKey"} /\ t1 = "Key"
            /\ t2 \notin {"Key", "Value", "BlockEnd"} \cup NodeToks(TRUE) \cup NotYet ->
            [pos |-> Base + 2, msg |-> node]
       [] state = "BlockMappingValue" /\ t1 = "Value"
            /\ t2 \notin {"Key", "Value", "BlockEnd"} \cup NodeToks(TRUE) \cup NotYet ->
            [pos |-> Base + 2, msg |-> node]
       [] state \in {"BlockSequenceFirstEntry", "BlockSequenceEntry"}
            /\ t1 \notin {"BlockEntry", "BlockEnd"} \cup NotYet ->
            [pos |-> Base + 1,
             msg |-> "while parsing a block collection, did not find expected '-' indicator"]
       [] state \in {"BlockSequenceFirstEntry", "BlockSequenceEntry"} /\ t1 = "BlockEntry"
            /\ t2 \notin {"BlockEntry", "BlockEnd"} \cup NodeToks(FALSE) \cup NotYet ->
            [pos |-> Base + 2, msg |-> node]
       [] state = "IndentlessSequenceEntry" /\ t1 = "BlockEntry"
            /\ t2 \notin {"BlockEntry", "Key", "Value", "BlockEnd"}
                         \cup NodeToks(FALSE) \cup NotYet ->
            [pos |-> Base + 2, msg |-> node]
       [] OTHER -> NoReject

\* C21: a token the state machine cannot accept makes next() return an error
\* with that token's position and the message of the position it stands in
\* (key, entry, node or stream start), and no event.
C21_UnacceptedToken ==
  [][(Unaccepted # NoReject /\ ret = NoRet /\ ret' # NoRet) =>
       /\ ret'.tag = "err"
       /\ ret'.mark = Unaccepted.pos
       /\ ret'.msg = Unaccepted.msg
       /\ events' = events]_vars

\* a scalar in key position has been refused with the message for a missing
\* key and the scalar's position
C21_Witness ==
  /\ ret.tag = "err"
  /\ ret.msg = "while parsing a block mapping, did not find expected key"
  /\ ret.mark = tpos + 1
  /\ toks[ret.mark].type = "Scalar"
  /\ state = "BlockMappingKey"

\* the position of the token after a finished document and the DocumentEnd
\* tokens behind it that is no StreamEnd, directive or DocumentStart; 0 when
\* there is none
Trailing ==
  LET p == SkipWhile(tpos, {"DocumentEnd"}) IN
  IF state = "DocumentStart"
     /\ TypeAt(p + 1) \notin {"StreamEnd", "DocumentStart"} \cup Directives \cup NotYet
    THEN p + 1 ELSE 0

\* C22: only the first document of a stream starts implicitly: content that
\* follows a finished document without a DocumentStart token is refused, after
\* the DocumentEnd event of that document, with "did not find expected
\* <document start>" and no event, and every later DocumentStart event
\* stands at a DocumentStart token.
C22_OnlyFirstImplicit ==
  [][(state = "DocumentStart" /\ ret = NoRet /\ ret' # NoRet) =>
       /\ Last(events).type = "DocumentEnd"
       /\ Trailing # 0 =>
            /\ ret'.tag = "err"
            /\ ret'.msg = "did not find expected <document start>"
            /\ ret'.mark = Trailing
            /\ events' = events
       /\ (ret'.tag = "ok" /\ ret'.ev.type = "DocumentStart") =>
            toks[ret'.mark].type = "DocumentStart"]_vars

\* a scalar after a document closed by ... has been refused
C22_Witness ==
  /\ ret.tag = "err"
  /\ ret.msg = "did not find expected <document start>"
  /\ Last(events).type = "DocumentEnd"
  /\ toks[ret.mark].type = "Scalar"
  /\ toks[ret.mark - 1].type = "DocumentEnd"

\* the states whose handler can call pop_state
PopStates ==
  {"DocumentContent", "BlockNode", "BlockMappingFirstKey", "BlockMappingKey",
   "BlockMappingValue", "BlockSequenceFirstEntry", "BlockSequenceEntry",
   "IndentlessSequenceEntry"}

\* C23: the continuation stack never underflows: in every state whose handler
\* can pop, the states stack is not empty, and no next() ends in the unwrap()
\* of an empty stack.
C23_NoUnderflow ==
  /\ state \in PopStates => states # <<>>
  /\ ret.tag # "panic"
  /\ (Calling /\ current = NoRet) => parse(state, states, tpos).tag # "panic"

\* the MappingEnd of a root mapping has popped the last state of the stack
C23_Witness ==
  /\ ret.tag = "ok"
  /\ ret.ev.type = "MappingEnd"
  /\ state = "DocumentEnd"
  /\ states = <<>>

NodeEvents == {"Scalar", "SequenceStart", "MappingStart"}

\* C24: the assumptions of the load driver hold: the first event is
\* StreamStart, a document starts with DocumentStart and ends with DocumentEnd
\* after its root, load_node is handed the first event of a node only, the
\* parser is not called again in state End, and no load ends in a panic.
C24_DriverAssumptions ==
  /\ result.tag # "panic"
  /\ Calling => state # "End"
  /\ ret.tag = "ok" =>
       ret.ev.type \in
         CASE pc = "load" -> {"StreamStart"}
           [] pc = "load_loop" -> {"DocumentStart", "StreamEnd"}
           [] pc = "load_document_node" -> NodeEvents
           [] pc = "load_document_end" -> {"DocumentEnd"}
           [] pc = "load_mapping_key" -> NodeEvents \cup {"MappingEnd"}
           [] pc = "load_mapping_value" -> NodeEvents
           [] pc = "load_sequence" -> NodeEvents \cup {"SequenceEnd"}
           [] OTHER -> {}

\* an ill-formed input, a scalar where a '-' is expected, has ended the load
\* with the parser's error
C24_Witness ==
  /\ result.tag = "err"
  /\ result.err.msg = "while parsing a block collection, did not find expected '-' indicator"
  /\ pc = "done"
  /\ doc_stack # <<>>

\* C25: at every DocumentEnd event delivered to the loader doc_stack holds
\* exactly one node and key_stack is empty; handling the event moves that
\* node to the end of docs and leaves both stacks empty, so the arms for an
\* empty doc_stack and for more than one element are never taken
C25_DocumentEndMovesRoot ==
  [][Handles("DocumentEnd") =>
       /\ Len(doc_stack) = 1
       /\ key_stack = <<>>
       /\ docs' = Append(docs, doc_stack[1])
       /\ doc_stack' = <<>>
       /\ key_stack' = <<>>]_vars

\* the DocumentEnd of a mapping document was handled: the Hash with its
\* pair is in docs and both stacks are empty
C25_Witness ==
  /\ ret = NoRet
  /\ pc = "load_loop"
  /\ Last(events).type = "DocumentEnd"
  /\ docs = <<Hash(<<[key |-> String("a"), value |-> String("a")]>>)>>
  /\ doc_stack = <<>>
  /\ key_stack = <<>>

\* the loader handles a SequenceEnd or MappingEnd event in this step
HandlesEnd == Handles("SequenceEnd") \/ Handles("MappingEnd")

\* the container c is the newest element of the Array p, or the newest
\* value or the pending key of the Hash p, after the step
InsertedInto(c, p, q, pending) ==
  CASE p.kind = "Array" -> q = Array(Append(p.members, c))
    [] p.kind = "Hash" ->
         IF is_badvalue(pending)
           THEN q = p /\ Last(key_stack') = c
           ELSE q = Hash(insert(p.members, pending, c))
    [] OTHER -> FALSE

\* C26: trees are built bottom-up: a step leaves every doc_stack entry below
\* the top unchanged; the stack grows only by one empty container (or by the
\* root scalar) and shrinks only by one, at a SequenceEnd, MappingEnd or
\* DocumentEnd; the container on top is put into its parent, or left as the
\* root, exactly when its end event is handled, with all its children
C26_BottomUp ==
  [][/\ \A i \in 1..Len(doc_stack) :
          (i < Len(doc_stack) /\ i < Len(doc_stack')) => doc_stack'[i] = doc_stack[i]
     /\ Len(doc_stack') > Len(doc_stack) =>
          /\ Len(doc_stack') = Len(doc_stack) + 1
          /\ \/ Handles("SequenceStart") /\ Last(doc_stack') = Array(<<>>)
             \/ Handles("MappingStart") /\ Last(doc_stack') = Hash(<<>>)
             \/ Handles("Scalar") /\ doc_stack = <<>>
     /\ Len(doc_stack') < Len(doc_stack) =>
          /\ Len(doc_stack') = Len(doc_stack) - 1
          /\ HandlesEnd \/ Handles("DocumentEnd")
     /\ (HandlesEnd /\ ~Rejected) =>
          /\ Last(doc_stack).kind = (IF Handles("SequenceEnd") THEN "Array" ELSE "Hash")
          /\ IF Len(doc_stack) = 1
               THEN doc_stack' = doc_stack
               ELSE /\ Len(doc_stack') = Len(doc_stack) - 1
                    /\ InsertedInto(Last(doc_stack),
                                    doc_stack[Len(doc_stack) - 1],
                                    Last(doc_stack'),
                                    IF Handles("MappingEnd")
                                      THEN key_stack[Len(key_stack) - 1]
                                      ELSE Last(key_stack))
     /\ (~HandlesEnd /\ Len(doc_stack') = Len(doc_stack) /\ doc_stack' # doc_stack) =>
          /\ Handles("Scalar")
          /\ Last(doc_stack).kind \in {"Array", "Hash"}
          /\ Len(Last(doc_stack').members) = Len(Last(doc_stack).members) + 1]_vars

\* the SequenceEnd of a sequence that is the value of a key was handled: the
\* Array with its element is the value of the pair in the Hash on top
C26_Witness ==
  /\ ret = NoRet
  /\ events # <<>>
  /\ Last(events).type = "SequenceEnd"
  /\ doc_stack = <<Hash(<<[key |-> String("a"), value |-> Array(<<String("a")>>)]>>)>>
  /\ key_stack = <<BadValue>>

\* the number of Hash nodes in a stack of nodes
RECURSIVE HashCount(_)
HashCount(ds) ==
  IF ds = <<>> THEN 0
  ELSE (IF Last(ds).kind = "Hash" THEN 1 ELSE 0) + HashCount(Front(ds))

\* the events handled so far (all the parser returned, but for the one the
\* driver is about to deliver) end with a complete root node: it waits on
\* doc_stack for the DocumentEnd event
RootDone ==
  Top(OpenAt(Len(events) - (IF ret.tag = "ok" THEN 1 ELSE 0))) = "DocFull"

\* the Hash nodes on doc_stack that are still open: all of them, but for a
\* completed root
OpenHashes ==
  HashCount(doc_stack) - (IF RootDone /\ doc_stack[1].kind = "Hash" THEN 1 ELSE 0)

\* C27: key_stack is as long as the number of Hash nodes on doc_stack that
\* are still open (the completed root mapping stays on doc_stack after its
\* sentinel is popped), so an open Hash on top has its pending key on top of
\* key_stack; no event makes the loader read an empty key_stack or meet a
\* parent that is neither Array nor Hash
C27_KeyStackMatchesOpenHashes ==
  /\ Len(key_stack) = OpenHashes
  /\ RootDone => Len(doc_stack) = 1 /\ key_stack = <<>>
  /\ (~RootDone /\ doc_stack # <<>> /\ Last(doc_stack).kind = "Hash") => key_stack # <<>>
  /\ ret.tag = "ok" => on_event(docs, doc_stack, key_stack, ret.ev).tag # "panic"
  /\ (ret.tag = "ok" /\ ret.ev.type = "Scalar" /\ doc_stack # <<>>) =>
       Last(doc_stack).kind \in {"Array", "Hash"}

\* C27 as the specification states it: key_stack is as long as the number
\* of Hash nodes on doc_stack, and a Hash on top of doc_stack has its
\* pending key on top of key_stack
C27_KeyStackMatchesHashes ==
  /\ Len(key_stack) = HashCount(doc_stack)
  /\ (doc_stack # <<>> /\ Last(doc_stack).kind = "Hash") => key_stack # <<>>

\* the MappingEnd of a root mapping that holds a mapping was handled: the
\* root Hash is on doc_stack and key_stack is empty
C27_Witness ==
  /\ RootDone
  /\ doc_stack = <<Hash(<<[key |-> String("a"),
                           value |-> Hash(<<[key |-> String("a"), value |-> String("")]>>)]>>)>>
  /\ key_stack = <<>>

\* C28: no key is dropped: the sentinel that a MappingEnd event pops from
\* key_stack is BadValue, every key before it has got its value
C28_NoPendingKeyAtMappingEnd ==
  [][Handles("MappingEnd") =>
       /\ key_stack # <<>>
       /\ is_badvalue(Last(key_stack))
       /\ Len(key_stack') = Len(key_stack) - 1]_vars

\* the MappingEnd of a mapping of two pairs was handled and its sentinel is
\* popped
C28_Witness ==
  /\ ret = NoRet
  /\ events # <<>>
  /\ Last(events).type = "MappingEnd"
  /\ key_stack = <<>>
  /\ Len(doc_stack) = 1
  /\ doc_stack[1].kind = "Hash"
  /\ Len(doc_stack[1].members) = 2

\* the Hash that gets the node of the event being handled: the top of
\* doc_stack for a scalar, the one below the top for a finished container
Parent ==
  IF ret.ev.type = "Scalar" THEN Last(doc_stack) ELSE doc_stack[Len(doc_stack) - 1]

\* the pending key of Parent
PendingKey ==
  IF ret.ev.type = "MappingEnd" THEN key_stack[Len(key_stack) - 1] ELSE Last(key_stack)

\* C29: a repeated key leaves the Hash as it was: the same entries in the
\* same order, the first value still under the key, the later value nowhere
\* in it, and the pending-key sentinel reset to BadValue
C29_RepeatedKeyKeepsFirst ==
  [][Rejected =>
       /\ ret.tag = "ok"
       /\ ret.ev.type \in {"Scalar", "SequenceEnd", "MappingEnd"}
       /\ Parent.kind = "Hash"
       /\ contains_key(Parent.members, PendingKey)
       /\ Last(doc_stack') = Parent
       /\ Len(Last(doc_stack').members) = Len(Parent.members)
       /\ get(Last(doc_stack').members, PendingKey) = get(Parent.members, PendingKey)
       /\ is_badvalue(Last(key_stack'))
       /\ Len(recv_errs') = Len(recv_errs) + 1]_vars

\* the second pair of a repeated key was rejected: the Hash holds the first
\* pair only, whose value differs from the rejected one, and the sentinel is
\* reset
C29_Witness ==
  /\ ret = NoRet
  /\ Len(recv_errs) = 1
  /\ Last(events).type = "SequenceEnd"
  /\ doc_stack = <<Hash(<<[key |-> String("a"), value |-> String("")]>>)>>
  /\ key_stack = <<BadValue>>

\* the scalar tokens in key position, in stream order
KeyToks == {i \in 2..Len(toks) : toks[i - 1].type = "Key" /\ toks[i].type = "Scalar"}

\* the event being handled is a scalar for the Hash on top of doc_stack
ScalarInHash ==
  /\ Handles("Scalar")
  /\ doc_stack # <<>>
  /\ Last(doc_stack).kind = "Hash"

\* C30: key equality ignores scalar style: a scalar in key position becomes
\* the String of its text whatever its style (an omitted key the String of
\* the empty text), and the pair of a scalar key is rejected as a repeated
\* key exactly when the Hash has a scalar key of the same text
C30_KeyStyleIgnored ==
  [][/\ (ScalarInHash /\ is_badvalue(Last(key_stack))) =>
          /\ ret.ev.style \in TScalarStyle
          /\ Last(key_stack') = String(ret.ev.text)
          /\ ret.mark \in KeyToks => ret.ev.text = toks[ret.mark].text
          /\ ret.mark \notin KeyToks => ret.ev = empty_scalar
     /\ (ScalarInHash /\ ~is_badvalue(Last(key_stack))) =>
          (Rejected <=>
             \E i \in 1..Len(Last(doc_stack).members) :
                LET k == Last(doc_stack).members[i].key IN
                IF Last(key_stack).kind = "String"
                  THEN k.kind = "String" /\ k.text = Last(key_stack).text
                  ELSE k = Last(key_stack))]_vars

\* plain a and quoted 'a' were keys of one mapping: the pair of the second
\* was rejected and the Hash holds the one key a
C30_Witness ==
  /\ \E i \in KeyToks : \E j \in KeyToks :
        /\ i < j
        /\ toks[i] = ScalarTok("a", "Plain")
        /\ toks[j] = ScalarTok("a", "SingleQuoted")
  /\ Len(recv_errs) = 1
  /\ doc_stack = <<Hash(<<[key |-> String("a"), value |-> String("")]>>)>>
  /\ key_stack = <<BadValue>>

\* the event being handled completes a pair of the Hash Parent: a node
\* arrives while the key of that Hash is pending
InsertsValue ==
  /\ ret.tag = "ok"
  /\ ret' = NoRet
  /\ ret.ev.type \in {"Scalar", "SequenceEnd", "MappingEnd"}
  /\ Len(doc_stack) >= (IF ret.ev.type = "Scalar" THEN 1 ELSE 2)
  /\ Parent.kind = "Hash"
  /\ Len(key_stack) >= (IF ret.ev.type = "MappingEnd" THEN 2 ELSE 1)
  /\ ~is_badvalue(PendingKey)

\* C31: key uniqueness is checked per Hash: a pair is rejected exactly when
\* its key is already in the Hash it goes into; the same key in the
\* enclosing mapping, in a sibling mapping of a sequence or in an earlier
\* document raises no error
C31_UniquePerHash ==
  [][/\ InsertsValue => (Rejected <=> contains_key(Parent.members, PendingKey))
     /\ Rejected => InsertsValue]_vars

\* a sequence of two mappings with the same key a was loaded without an
\* error
C31_Witness ==
  /\ Returned
  /\ result.tag = "ok"
  /\ recv_errs = <<>>
  /\ result.docs = <<Array(<<Hash(<<[key |-> String("a"), value |-> String("")]>>),
                             Hash(<<[key |-> String("a"), value |-> String("")]>>)>>)>>

\* a mapping with the key a under the key a of the enclosing mapping was
\* loaded without an error
C31_Nested ==
  /\ Returned
  /\ recv_errs = <<>>
  /\ result.docs = <<Hash(<<[key |-> String("a"),
                             value |-> Hash(<<[key |-> String("a"), value |-> String("")]>>)]>>)>>

\* two documents with the same key a were loaded without an error
C31_TwoDocuments ==
  /\ Returned
  /\ recv_errs = <<>>
  /\ result.docs = <<Hash(<<[key |-> String("a"), value |-> String("")]>>),
                     Hash(<<[key |-> String("a"), value |-> String("")]>>)>>

\* a handler of the state machine returns to the driver in this step
Returns == ret = NoRet /\ ret' # NoRet

\* the states of a mapping in key or value position
MappingStates == {"BlockMappingFirstKey", "BlockMappingKey", "BlockMappingValue"}

\* C32: an indentless sequence ends at the first token in entry position
\* that is not BlockEntry: the parser pops the suspended state, which is
\* that of the enclosing mapping, and returns SequenceEnd at that token
\* without consuming it; a SequenceStart at a BlockEntry token, not
\* consumed either, is only returned in key or value position of a mapping
C32_IndentlessSequence ==
  [][/\ (Returns /\ state = "IndentlessSequenceEntry") =>
          states # <<>> /\ Last(states) \in {"BlockMappingKey", "BlockMappingValue"}
     /\ (Returns /\ state = "IndentlessSequenceEntry"
           /\ toks[tpos + 1].type \notin {"BlockEntry", "ScanError"}) =>
          /\ ret'.tag = "ok"
          /\ ret'.ev = Ev("SequenceEnd")
          /\ ret'.mark = tpos + 1
          /\ tpos' = tpos
          /\ state' = Last(states)
          /\ states' = Front(states)
     /\ (Returns /\ ret'.tag = "ok" /\ ret'.ev.type = "SequenceStart"
           /\ toks[ret'.mark].type = "BlockEntry") =>
          /\ state \in MappingStates
          /\ state' = "IndentlessSequenceEntry"
          /\ tpos' = ret'.mark - 1
     /\ (Returns /\ state' = "IndentlessSequenceEntry" /\ state \notin MappingStates) =>
          \/ state = "IndentlessSequenceEntry"
          \/ Last(states) = "IndentlessSequenceEntry" /\ ret'.ev.type # "SequenceStart"]_vars

\* the sequence opened at the BlockEntry after a key was closed at the Key
\* token that follows its one entry, and that token is not consumed
C32_Witness ==
  /\ ret.tag = "ok"
  /\ ret.ev = Ev("SequenceEnd")
  /\ Len(toks) >= 5
  /\ toks[3].type = "Key"
  /\ toks[4].type = "BlockEntry"
  /\ toks[5].type = "Key"
  /\ ret.mark = 5
  /\ tpos = 4
  /\ state = "BlockMappingValue"

\* the states whose handler is document_start
StartStates == {"ImplicitDocumentStart", "DocumentStart"}

\* where document_start looks for the start of a document: behind the
\* DocumentEnd tokens when the start is not the first of the stream
StartPos == IF state = "DocumentStart" THEN SkipWhile(tpos, {"DocumentEnd"}) ELSE tpos

\* C33: directives carry no semantics and never fail on their content:
\* document_start goes past every directive, whatever its version, without
\* an event, and returns what it returns on the same tokens without them,
\* DocumentStart at the DocumentStart token behind them; it is an error only
\* when no DocumentStart token follows the directives; no other handler
\* consumes a directive or fails at one
C33_DirectivesIgnored ==
  [][/\ (Returns /\ state \in StartStates /\ TypeAt(StartPos + 1) \in Directives) =>
          LET q == SkipWhile(StartPos, Directives)
              r == document_start(state, states, q, state = "ImplicitDocumentStart")
          IN CASE TypeAt(q + 1) = "DocumentStart" ->
                    /\ ret'.tag = "ok"
                    /\ ret'.ev = Ev("DocumentStart")
                    /\ ret'.mark = q + 1
                    /\ <<ret'.ev, ret'.mark, state', states', tpos'>> =
                         <<r.ev, r.mark, r.state, r.states, r.tpos>>
               [] TypeAt(q + 1) = "ScanError" ->
                    ret'.tag = "err" /\ ret'.mark = q + 1 /\ ret'.msg = toks[q + 1].text
               [] OTHER ->
                    /\ ret'.tag = "err"
                    /\ ret'.mark = q + 1
                    /\ ret'.msg = "did not find expected <document start>"
                    /\ events' = events
     /\ (Returns /\ \E i \in (tpos + 1)..tpos' : toks[i].type \in Directives) =>
          state \in StartStates /\ Len(events') <= Len(events) + 1
     /\ (Returns /\ ret'.tag = "err") => TypeAt(ret'.mark) \notin Directives
     /\ (Returns /\ state \notin StartStates /\ TypeAt(tpos + 1) \in Directives) =>
          ret'.tag = "ok" /\ tpos' = tpos]_vars

\* a stream of a %YAML directive of version 3.0, a %TAG directive and `---`
\* was loaded as the one empty document that `---` alone gives
C33_Witness ==
  /\ Returned
  /\ result.tag = "ok"
  /\ Len(toks) = 5
  /\ toks[2] = IncompatibleVersion
  /\ toks[3].type = "TagDirective"
  /\ toks[4].type = "DocumentStart"
  /\ [i \in 1..Len(events) |-> events[i].type] =
       <<"StreamStart", "DocumentStart", "Scalar", "DocumentEnd", "StreamEnd">>
  /\ result.docs = <<String("")>>

\* the StreamEnd events returned so far
StreamEnds == Cardinality({i \in 1..Len(events) : events[i].type = "StreamEnd"})

\* C34: End is absorbing: once StreamEnd is returned the state is End, and
\* every later next() or peek() returns StreamEnd again, takes no token from
\* the scanner and leaves the state, the continuation stack and the tokens
\* consumed as they are
C34_EndAbsorbing ==
  [][StreamEnds >= 1 =>
       /\ state = "End"
       /\ state' = "End"
       /\ states' = states
       /\ tpos' = tpos
       /\ toks' = toks
       /\ UNCHANGED scannerVars
       /\ ret' \in {NoRet, ret} \/ (ret'.tag = "ok" /\ ret'.ev = Ev("StreamEnd"))
       /\ peeked' = NoRet \/ (peeked'.tag = "ok" /\ peeked'.ev = Ev("StreamEnd"))
       /\ current' = NoRet \/ (current'.tag = "ok" /\ current'.ev = Ev("StreamEnd"))
       /\ events' # events => events' = Append(events, Ev("StreamEnd"))]_vars

\* after the load of the document a, next() has returned StreamEnd two more
\* times and a peek() has left one more in the slot
C34_Witness ==
  /\ pc = "done"
  /\ result.docs = <<String("a")>>
  /\ StreamEnds = 1 + MaxAfterEnd
  /\ ret.tag = "ok"
  /\ ret.ev = Ev("StreamEnd")
  /\ current = peeked
  /\ current.tag = "ok"
  /\ current.ev = Ev("StreamEnd")
  /\ state = "End"

\* the events the loader has handled: all that next() returned, but for the
\* one the driver is about to deliver
Handled == Len(events) - (IF ret.tag = "ok" THEN 1 ELSE 0)

\* the containers open after the first n events
OpenContainers(n) ==
  LET stk == OpenAt(n) IN
  Cardinality({i \in 1..Len(stk) : stk[i] \in {"Seq", "MapKey", "MapValue"}})

Max(a, b) == IF a >= b THEN a ELSE b

RECURSIVE Depth(_), DepthOfSeq(_), DepthOfEntries(_)
\* the number of containers nested in each other in a tree, 0 for a scalar
Depth(n) ==
  CASE n.kind = "Array" -> 1 + DepthOfSeq(n.members)
    [] n.kind = "Hash" -> 1 + DepthOfEntries(n.members)
    [] OTHER -> 0

DepthOfSeq(s) ==
  IF s = <<>> THEN 0 ELSE Max(Depth(Head(s)), DepthOfSeq(Tail(s)))

DepthOfEntries(h) ==
  IF h = <<>> THEN 0
  ELSE Max(Max(Depth(Head(h).key), Depth(Head(h).value)), DepthOfEntries(Tail(h)))

\* the heights that the loader, the driver and the parser keep in step with
\* the containers open: doc_stack has one node per open container and one
\* for a completed root, the driver one suspended load_node call per open
\* container, the parser at most one continuation per open collection and
\* two more for the document and the node being parsed
StacksTrackNesting ==
  /\ Len(doc_stack) = OpenContainers(Handled) + (IF RootDone THEN 1 ELSE 0)
  /\ Len(cstack) = OpenContainers(Handled)
  /\ Len(states) <= OpenContainers(Len(events)) + 2

Scanned == toks \o queue

\* how many of the first n tokens of ts have a type in types
CountTypes(ts, n, types) == Cardinality({i \in 1..n : ts[i].type \in types})

BlockStarts == {"BlockSequenceStart", "BlockMappingStart"}

\* the block levels open after the first n tokens of ts
OpenBlocks(ts, n) == CountTypes(ts, n, BlockStarts) - CountTypes(ts, n, {"BlockEnd"})

\* the length of the longest common prefix of the stacks s and t
CommonPrefix(s, t) ==
  Cardinality({n \in 1..Len(s) : n <= Len(t) /\ \A i \in 1..n : s[i] = t[i]})

\* the indentation stack is the sentinel -1 under strictly increasing
\* columns, one per block start token without its BlockEnd; no prefix of the
\* tokens has more BlockEnd than block starts, and at StreamEnd every level
\* is closed
BlocksBalanced ==
  /\ indents # <<>>
  /\ indents[1] = -1
  /\ \A i \in 2..Len(indents) : indents[i] > indents[i - 1]
  /\ OpenBlocks(Scanned, Len(Scanned)) = Len(indents) - 1
  /\ \A n \in 0..Len(Scanned) : OpenBlocks(Scanned, n) >= 0
  /\ \A n \in 1..Len(Scanned) :
       Scanned[n].type = "StreamEnd" => OpenBlocks(Scanned, n) = 0 /\ indents = <<-1>>

\* the tokens of the item scanned in this step: one BlockEnd for every
\* level popped, all before the other tokens, and one block start token for
\* the level pushed, if any
ScansItem ==
  LET old == Scanned
      new == Scanned'
      k == CommonPrefix(indents, indents')
      popped == Len(indents) - k
  IN (indents' # indents \/ Len(new) > Len(old) + 1) =>
       /\ k >= 1
       /\ Len(new) >= Len(old) + popped
       /\ \A i \in 1..popped : new[Len(old) + i].type = "BlockEnd"
       /\ CountTypes(new, Len(new), {"BlockEnd"}) = CountTypes(old, Len(old), {"BlockEnd"}) + popped
       /\ CountTypes(new, Len(new), BlockStarts) =
            CountTypes(old, Len(old), BlockStarts) + (Len(indents') - k)
       /\ Len(indents') - k <= 1
       /\ \A i \in (k + 1)..Len(indents) : \A j \in (k + 1)..Len(indents') :
            indents[i] > indents'[j]

\* C36: the scanner's block tokens are balanced: the indentation stack
\* starts as <<-1>> and never loses the -1; a dedent emits one BlockEnd per
\* level it pops; at the end of the input every level left is popped before
\* StreamEnd, so every block start token has its one BlockEnd
C36_BlockTokensBalanced == [][ScansItem]_vars /\ []BlocksBalanced

\* an input ended inside a sequence in a mapping: both levels were closed
\* with a BlockEnd each before StreamEnd
C36_Witness ==
  /\ stream_end_produced
  /\ indents = <<-1>>
  /\ CountTypes(Scanned, Len(Scanned), BlockStarts) = 2
  /\ CountTypes(Scanned, Len(Scanned), {"BlockEnd"}) = 2
  /\ \E n \in 3..Len(Scanned) :
       /\ Scanned[n].type = "StreamEnd"
       /\ Scanned[n - 1].type = "BlockEnd"
       /\ Scanned[n - 2].type = "BlockEnd"

====
